---- MODULE Spec2Model ----
(***************************************************************************)
(* The result server of Cuckoo Sandbox: cuckoo/core/resultserver.py, with  *)
(* open_exclusive of cuckoo/common/files.py.                               *)
(*                                                                         *)
(* A connection's byte stream is a sequence of lexemes.  A lexeme stands   *)
(* for a run of bytes that no recv splits: "\n" and " " are the framing    *)
(* bytes, "FILE", "LOG", "BSON", "REALTIME" the command words, the Json*   *)
(* lexemes complete JSON texts, the path lexemes the pieces of a path, and *)
(* every other lexeme one byte of payload, but the run lexemes "x<n>",     *)
(* which are n bytes that hold no newline.  recv may cut the stream        *)
(* between any two lexemes.                                                *)
(***************************************************************************)
EXTENDS Integers, Sequences, FiniteSets, TLC

\* ------------------------------------------------------------------ bounds
\* The most payload bytes a peer sends after the framing lines.
MaxBody == 3
\* The most lexemes one recv returns (the code asks for 16384 bytes).
MaxChunk == 2

\* ------------------------------------------------------- program constants
MAX_NETLOG_LINE == 4 * 1024
RECV_SIZE == 16384
RESULT_UPLOADABLE ==
    { <<"files">>, <<"shots">>, <<"buffer">>, <<"extracted">>, <<"memory">>,
      <<"package_files">>, <<"logs">> }
BANNED_PATH_CHARS == { "NUL", ":" }
TRUNCATED == <<"... (truncated)">>
NL == "\n"
SP == " "
commands == { "BSON", "FILE", "LOG", "REALTIME" }

\* Python's None, where the value is otherwise a string or a number.
None == "None"
NoPid == -1
NoTask == -1

\* ------------------------------------------------------------ the universe
TaskIds == { 1, 2 }
IPs == { "ipA", "ipB" }
RTs == { "rt1", "rt2" }
Sessions == { 1, 2 }

Min(a, b) == IF a <= b THEN a ELSE b

\* ------------------------------------------------------ pure string helpers
\* len(): the bytes of a lexeme and of a string.  The run lexemes are as
\* long as their names say; the lengths the program compares are far above
\* those of the other lexemes, which count as one byte each.
Width(x) ==
    CASE x = "x4095" -> 4095
      [] x = "x4096" -> 4096
      [] x = "x5000" -> 5000
      [] x = "x16384" -> 16384
      [] OTHER -> 1

RECURSIVE Bytes(_)
Bytes(b) == IF b = <<>> THEN 0 ELSE Width(Head(b)) + Bytes(Tail(b))

\* str.find: the least index of c in s, 0 when there is none (Python: -1).
Find(s, c) ==
    IF \E i \in 1..Len(s) : s[i] = c
    THEN CHOOSE i \in 1..Len(s) : s[i] = c /\ \A j \in 1..(i - 1) : s[j] # c
    ELSE 0

\* str.rfind: the greatest index of c in s, 0 when there is none.
RFind(s, c) ==
    IF \E i \in 1..Len(s) : s[i] = c
    THEN CHOOSE i \in 1..Len(s) : s[i] = c /\ \A j \in (i + 1)..Len(s) : s[j] # c
    ELSE 0

\* str.replace("\\", "/")
ReplaceBackslash(p) == [i \in 1..Len(p) |-> IF p[i] = "\\" THEN "/" ELSE p[i]]

\* str.rstrip("/")
RECURSIVE RStripSlash(_)
RStripSlash(p) ==
    IF p # <<>> /\ p[Len(p)] = "/" THEN RStripSlash(SubSeq(p, 1, Len(p) - 1)) ELSE p

\* A split that drops the last "/" only.
PathSplit_one_slash(p) ==
    LET i == RFind(p, "/")
    IN  [dir |-> SubSeq(p, 1, i - 1), name |-> SubSeq(p, i + 1, Len(p))]

\* os.path.split (posixpath): cut after the last "/"; the head loses its
\* trailing slashes unless it consists of slashes only.
PathSplit(p) ==
    LET i == RFind(p, "/")
        head == SubSeq(p, 1, i)
        tail == SubSeq(p, i + 1, Len(p))
    IN  [dir |-> IF head # <<>> /\ (\E k \in 1..Len(head) : head[k] # "/")
                 THEN RStripSlash(head) ELSE head,
         name |-> tail]

\* A netlog_sanitize_fname that returns the name part of what it accepts.
netlog_sanitize_fname_name(path) ==
    LET p == ReplaceBackslash(path)
        sp == PathSplit(p)
    IN  IF sp.dir \notin RESULT_UPLOADABLE THEN [ok |-> FALSE, path |-> p]
        ELSE IF \E k \in 1..Len(sp.name) : sp.name[k] \in BANNED_PATH_CHARS
             THEN [ok |-> FALSE, path |-> p]
        ELSE [ok |-> TRUE, path |-> sp.name]

\* A netlog_sanitize_fname that refuses nothing.
netlog_sanitize_fname_lax(path) == [ok |-> TRUE, path |-> ReplaceBackslash(path)]

\* netlog_sanitize_fname: the path with "\\" replaced when it is accepted;
\* ok = FALSE stands for CuckooOperationalError.
netlog_sanitize_fname(path) ==
    LET p == ReplaceBackslash(path)
        sp == PathSplit(p)
    IN  IF sp.dir \notin RESULT_UPLOADABLE THEN [ok |-> FALSE, path |-> p]
        ELSE IF \E k \in 1..Len(sp.name) : sp.name[k] \in BANNED_PATH_CHARS
             THEN [ok |-> FALSE, path |-> p]
        ELSE [ok |-> TRUE, path |-> p]

\* The file the kernel resolves a relative path to: "a//b" and "a/b" name
\* the same file (os.path.join(storagepath, dump_path), then open).
RECURSIVE FileKey(_)
FileKey(p) ==
    IF Len(p) < 2 THEN p
    ELSE IF p[1] = "/" /\ p[2] = "/" THEN FileKey(Tail(p))
    ELSE <<p[1]>> \o FileKey(Tail(p))

\* WriteAt: write(2) of bytes b at offset off of a file holding d; a gap
\* left by an offset past the end reads as zero bytes.
WriteAt(d, off, b) ==
    LET gap == IF Len(d) < off THEN [i \in 1..(off - Len(d)) |-> "NUL"] ELSE <<>>
        base == d \o gap
        n == IF Len(base) < off + Len(b) THEN off + Len(b) ELSE Len(base)
    IN  [i \in 1..n |-> IF i > off /\ i <= off + Len(b) THEN b[i - off] ELSE base[i]]

\* ------------------------------------------------------------ JSON headers
\* A decoded header.  tag "None": no header was sent; "int": a bare number n;
\* "obj": an object, whose absent keys read as <<>> (store_as, path, pids),
\* None (rid) and NoPid (pid), the values dict.get returns for them.
Header(tag, n, store_as, path, pids, rid, pid) ==
    [tag |-> tag, n |-> n, store_as |-> store_as, path |-> path, pids |-> pids,
     rid |-> rid, pid |-> pid]
NoHeader == Header("None", 0, <<>>, <<>>, <<>>, None, NoPid)
IntHeader(n) == Header("int", n, <<>>, <<>>, <<>>, None, NoPid)
ObjHeader(store_as, path, pids, rid, pid) == Header("obj", 0, store_as, path, pids, rid, pid)

\* The JSON texts of the model and what json.loads returns for each.
JsonTexts ==
    { "2", "7", "{}", "{\"pid\":7}", "{\"store_as\":\"files/a\"}",
      "{\"store_as\":\"files/a\",\"rid\":1}", "{\"store_as\":\"../a\"}" }
JsonValue(x) ==
    CASE x = "2" -> IntHeader(2)
      [] x = "7" -> IntHeader(7)
      [] x = "{}" -> ObjHeader(<<>>, <<>>, <<>>, None, NoPid)
      [] x = "{\"pid\":7}" -> ObjHeader(<<>>, <<>>, <<>>, None, 7)
      [] x = "{\"store_as\":\"files/a\"}" ->
            ObjHeader(<<"files", "/", "a">>, <<>>, <<>>, None, NoPid)
      [] x = "{\"store_as\":\"files/a\",\"rid\":1}" ->
            ObjHeader(<<"files", "/", "a">>, <<>>, <<>>, "1", NoPid)
      [] x = "{\"store_as\":\"../a\"}" ->
            ObjHeader(<<"..", "/", "a">>, <<>>, <<>>, None, NoPid)
      [] OTHER -> NoHeader

\* json.loads of the text after the command word: one complete JSON text, or
\* ValueError (ok = FALSE) for anything else, the empty text included.
json_loads(text) ==
    IF Len(text) = 1 /\ text[1] \in JsonTexts
    THEN [ok |-> TRUE, val |-> JsonValue(text[1])]
    ELSE [ok |-> FALSE, val |-> NoHeader]

\* header[1].startswith("{")
StartsWithBrace(text) ==
    text # <<>> /\ text[1] \in JsonTexts /\ JsonValue(text[1]).tag = "obj"

\* A negotiate_protocol that hands the BSON header on as it was decoded.
negotiate_protocol_unwrapped(line) ==
    LET i == Find(line, SP)
        word == IF i = 0 THEN line ELSE SubSeq(line, 1, i - 1)
        text == SubSeq(line, i + 1, Len(line))
        klass == IF Len(word) = 1 /\ word[1] \in commands THEN word[1] ELSE None
        js == json_loads(text)
        data == IF i = 0 THEN NoHeader ELSE js.val
    IN  IF klass = None THEN [klass |-> None, header |-> NoHeader, command |-> None]
        ELSE IF i # 0 /\ ~js.ok THEN [klass |-> None, header |-> NoHeader, command |-> None]
        ELSE [klass |-> klass, header |-> data, command |-> klass]

\* negotiate_protocol, from the line read: the handler class (None when the
\* function returns no handler), the decoded header and ctx.command.
negotiate_protocol(line) ==
    LET i == Find(line, SP)
        word == IF i = 0 THEN line ELSE SubSeq(line, 1, i - 1)
        text == SubSeq(line, i + 1, Len(line))
        klass == IF Len(word) = 1 /\ word[1] \in commands THEN word[1] ELSE None
        js == json_loads(text)
        data == IF i = 0 THEN NoHeader
                ELSE IF klass = "BSON" /\ ~StartsWithBrace(text)
                     THEN ObjHeader(<<>>, <<>>, <<>>, None, js.val.n)
                ELSE js.val
    IN  IF klass = None THEN [klass |-> None, header |-> NoHeader, command |-> None]
        ELSE IF i # 0 /\ ~js.ok THEN [klass |-> None, header |-> NoHeader, command |-> None]
        ELSE [klass |-> klass, header |-> data, command |-> klass]

\* int(x) for the decimal lexemes of the model; ok = FALSE is ValueError.
int(x) ==
    CASE x = <<"2">> -> [ok |-> TRUE, n |-> 2]
      [] x = <<"7">> -> [ok |-> TRUE, n |-> 7]
      [] x = <<"8">> -> [ok |-> TRUE, n |-> 8]
      [] OTHER -> [ok |-> FALSE, n |-> 0]

\* str.split(","): the pieces between the commas.
RECURSIVE SplitComma(_)
SplitComma(line) ==
    LET i == Find(line, ",")
    IN  IF i = 0 THEN <<line>>
        ELSE <<SubSeq(line, 1, i - 1)>> \o SplitComma(SubSeq(line, i + 1, Len(line)))

\* map(int, line.split(",")): ok = FALSE when one piece is no number.
ParsePids(line) ==
    LET parts == SplitComma(line)
    IN  [ok |-> \A i \in 1..Len(parts) : int(parts[i]).ok,
         pids |-> [i \in 1..Len(parts) |-> int(parts[i]).n]]

\* ------------------------------------------------------------- dictionaries
Get(d, k, default) == IF k \in DOMAIN d THEN d[k] ELSE default
Pop(d, k) == [x \in DOMAIN d \ {k} |-> d[x]]
Put(d, k, v) == [x \in DOMAIN d \cup {k} |-> IF x = k THEN v ELSE d[x]]
EmptyDict == <<>>

\* -------------------------------------------------------------------- state
VARIABLES
    tasks,            \* GeventResultServerWorker.tasks: ipaddr -> task_id
    rthandlers,       \* GeventResultServerWorker.rthandlers: task_id -> rt
    handlers,         \* GeventResultServerWorker.handlers: task_id -> set of ctx
    task_mgmt_lock,   \* "free", or the holder that keeps it across steps
    del_frame,        \* the del_task call in progress
    last_call,        \* history: the last add_task or del_task call that ended
    torn,             \* history: per task, how its last del_task left it
    upload_max_size,  \* config("cuckoo:resultserver:upload_max_size")
    pc,               \* per connection: where handle() is
    ctx,              \* per connection: its HandlerContext
    protocol,         \* per connection: its ProtocolHandler
    sock,             \* per connection: the socket and its peer
    hist,             \* per connection: history of what it has done
    fs,               \* per task: the files of its directory but files.json
    filelog,          \* per task: the content of files.json, in lexemes
    rtlog,            \* per connection: the calls made on its dispatcher
    pure_call         \* a function of the module called on its own

regVars == <<tasks, rthandlers, handlers>>
orchVars == <<task_mgmt_lock, del_frame, last_call, torn>>
sessVars == <<pc, ctx, protocol, sock, hist>>
fsVars == <<fs, filelog>>
vars == <<tasks, rthandlers, handlers, task_mgmt_lock, del_frame, last_call, torn,
          upload_max_size, pc, ctx, protocol, sock, hist, fs, filelog, rtlog,
          pure_call>>

\* ---------------------------------------------------------- initial values
NoFd == [open |-> FALSE, key |-> <<>>, off |-> 0]
IdleFrame == [pc |-> "idle", task_id |-> NoTask, ipaddr |-> None, ctxs |-> {},
              pulled |-> {}, repeat |-> FALSE, entry |-> <<>>]
NoCall == [op |-> None, task_id |-> NoTask, ipaddr |-> None, result |-> None]

\* No function is being called on its own: arg is the argument, ret the
\* results of the calls made so far.
NoPureCall == [fn |-> None, arg |-> <<>>, ret |-> <<>>]

\* A context that is given no dispatcher.
HandlerContext_no_rt(task_id, ipaddr, rt) ==
    [task_id |-> task_id, ipaddr |-> ipaddr, rt |-> None, command |-> None,
     response_id |-> None, buf |-> <<>>, exc |-> None]

\* HandlerContext.__init__
HandlerContext(task_id, ipaddr, rt) ==
    [task_id |-> task_id, ipaddr |-> ipaddr, rt |-> rt, command |-> None,
     response_id |-> None, buf |-> <<>>, exc |-> None]
\* ProtocolHandler.__init__
ProtocolHandler(klass, header) ==
    [klass |-> klass, header |-> header, fd |-> NoFd, response_id |-> None,
     limited |-> FALSE, remain |-> 0, warned |-> FALSE]
NoSock == [wire |-> <<>>, closes |-> FALSE, shut |-> FALSE, sent |-> <<>>]
\* attached: the context was registered; torn_at: where the connection was
\* when a del_task of its task took the entries out ("no": it never did);
\* cancelled: del_task called cancel() on it; body_reads: it called recv
\* after the negotiation; opened: it opened an output file; line_bytes: the
\* length of the longest line read_newline has returned to it.
NoHist == [attached |-> FALSE, torn_at |-> "no", cancelled |-> FALSE,
           body_reads |-> 0, opened |-> FALSE, line_bytes |-> 0]

InitWith(caps) ==
    /\ tasks = EmptyDict
    /\ rthandlers = EmptyDict
    /\ handlers = EmptyDict
    /\ task_mgmt_lock = "free"
    /\ del_frame = IdleFrame
    /\ last_call = NoCall
    /\ torn = [t \in TaskIds |-> "no"]
    /\ upload_max_size \in caps
    /\ pc = [s \in Sessions |-> "idle"]
    /\ ctx = [s \in Sessions |-> HandlerContext(NoTask, None, None)]
    /\ protocol = [s \in Sessions |-> ProtocolHandler(None, NoHeader)]
    /\ sock = [s \in Sessions |-> NoSock]
    /\ hist = [s \in Sessions |-> NoHist]
    /\ fs = [t \in TaskIds |-> EmptyDict]
    /\ filelog = [t \in TaskIds |-> <<>>]
    /\ rtlog = [s \in Sessions |-> <<>>]

\* ------------------------------------------------------------ orchestrator
\* An add_task that binds the address and registers no dispatcher.
add_task_unregistered(task_id, ipaddr, rt_handler) ==
    /\ task_mgmt_lock = "free"
    /\ tasks' = Put(tasks, ipaddr, task_id)
    /\ UNCHANGED rthandlers
    /\ last_call' = [NoCall EXCEPT !.op = "add_task", !.task_id = task_id,
                                   !.ipaddr = ipaddr, !.result = "ok"]
    /\ torn' = IF task_id \in DOMAIN torn THEN [torn EXCEPT ![task_id] = "no"] ELSE torn
    /\ UNCHANGED <<handlers, task_mgmt_lock, del_frame, upload_max_size, pure_call, rtlog>>
    /\ UNCHANGED <<sessVars, fsVars>>

\* add_task: both assignments under the lock.
add_task(task_id, ipaddr, rt_handler) ==
    /\ task_mgmt_lock = "free"
    /\ tasks' = Put(tasks, ipaddr, task_id)
    /\ rthandlers' = Put(rthandlers, task_id, rt_handler)
    /\ last_call' = [NoCall EXCEPT !.op = "add_task", !.task_id = task_id,
                                   !.ipaddr = ipaddr, !.result = "ok"]
    /\ torn' = IF task_id \in DOMAIN torn THEN [torn EXCEPT ![task_id] = "no"] ELSE torn
    /\ UNCHANGED <<handlers, task_mgmt_lock, del_frame, upload_max_size, pure_call, rtlog>>
    /\ UNCHANGED <<sessVars, fsVars>>

\* A del_task that gives the lock back after its pops, before it cancels.
del_task_pop_unlocked(task_id, ipaddr) ==
    /\ task_mgmt_lock = "free"
    /\ del_frame.pc = "idle"
    /\ task_mgmt_lock' = "free"
    /\ tasks' = Pop(tasks, ipaddr)
    /\ LET frame == [IdleFrame EXCEPT
                        !.task_id = task_id, !.ipaddr = ipaddr,
                        !.pulled = Get(handlers, task_id, {}),
                        !.repeat = /\ last_call.op = "del_task"
                                   /\ last_call.result = "ok"
                                   /\ last_call.task_id = task_id
                                   /\ last_call.ipaddr = ipaddr,
                        !.entry = <<tasks, rthandlers, handlers>>]
       IN  IF task_id \notin DOMAIN rthandlers
           THEN /\ del_frame' = [frame EXCEPT !.pc = "KeyError"]
                /\ UNCHANGED <<rthandlers, handlers>>
           ELSE /\ rthandlers' = Pop(rthandlers, task_id)
                /\ handlers' = Pop(handlers, task_id)
                /\ del_frame' = [frame EXCEPT !.pc = "cancel",
                                              !.ctxs = Get(handlers, task_id, {})]
    /\ hist' = [s \in Sessions |->
                   IF /\ task_id \in DOMAIN rthandlers
                      /\ ctx[s].task_id = task_id
                      /\ pc[s] \notin { "idle", "done" }
                      /\ hist[s].torn_at # "negotiating"
                   THEN [hist[s] EXCEPT !.torn_at =
                            IF pc[s] \in { "negotiate", "attach" }
                            THEN "negotiating" ELSE "handling"]
                   ELSE hist[s]]
    /\ UNCHANGED <<last_call, torn, upload_max_size, pure_call, rtlog, pc, ctx, protocol, sock, fsVars>>

\* del_task, from taking the lock to the pops: tasks.pop(ipaddr, None), then
\* rthandlers.pop(task_id), which raises KeyError when the key is absent, then
\* handlers.pop(task_id, set()).
del_task_pop(task_id, ipaddr) ==
    /\ task_mgmt_lock = "free"
    /\ del_frame.pc = "idle"
    /\ task_mgmt_lock' = "del_task"
    /\ tasks' = Pop(tasks, ipaddr)
    /\ LET frame == [IdleFrame EXCEPT
                        !.task_id = task_id, !.ipaddr = ipaddr,
                        !.pulled = Get(handlers, task_id, {}),
                        !.repeat = /\ last_call.op = "del_task"
                                   /\ last_call.result = "ok"
                                   /\ last_call.task_id = task_id
                                   /\ last_call.ipaddr = ipaddr,
                        !.entry = <<tasks, rthandlers, handlers>>]
       IN  IF task_id \notin DOMAIN rthandlers
           THEN /\ del_frame' = [frame EXCEPT !.pc = "KeyError"]
                /\ UNCHANGED <<rthandlers, handlers>>
           ELSE /\ rthandlers' = Pop(rthandlers, task_id)
                /\ handlers' = Pop(handlers, task_id)
                /\ del_frame' = [frame EXCEPT !.pc = "cancel",
                                              !.ctxs = Get(handlers, task_id, {})]
    /\ hist' = [s \in Sessions |->
                   IF /\ task_id \in DOMAIN rthandlers
                      /\ ctx[s].task_id = task_id
                      /\ pc[s] \notin { "idle", "done" }
                      /\ hist[s].torn_at # "negotiating"
                   THEN [hist[s] EXCEPT !.torn_at =
                            IF pc[s] \in { "negotiate", "attach" }
                            THEN "negotiating" ELSE "handling"]
                   ELSE hist[s]]
    /\ UNCHANGED <<last_call, torn, upload_max_size, pure_call, rtlog, pc, ctx, protocol, sock, fsVars>>

\* A cancel that leaves the socket readable.
cancel_without_shutdown(sk) == sk

\* HandlerContext.cancel: sock.shutdown(SHUT_RD), errors ignored.
cancel(sk) == [sk EXCEPT !.shut = TRUE]

\* A turn of the loop that passes over its context without cancelling it.
del_task_cancel_skipped(s) ==
    /\ del_frame.pc = "cancel"
    /\ s \in del_frame.ctxs
    /\ del_frame' = [del_frame EXCEPT !.ctxs = @ \ {s}]
    /\ UNCHANGED <<regVars, task_mgmt_lock, last_call, torn, upload_max_size, pure_call, rtlog>>
    /\ UNCHANGED <<sessVars, fsVars>>

\* del_task, one turn of "for ctx in ctxs: ctx.cancel()", the lock held.
del_task_cancel(s) ==
    /\ del_frame.pc = "cancel"
    /\ s \in del_frame.ctxs
    /\ sock' = [sock EXCEPT ![s] = cancel(sock[s])]
    /\ hist' = [hist EXCEPT ![s].cancelled = TRUE]
    /\ del_frame' = [del_frame EXCEPT !.ctxs = @ \ {s}]
    /\ UNCHANGED <<regVars, task_mgmt_lock, last_call, torn, upload_max_size, pure_call, rtlog>>
    /\ UNCHANGED <<pc, ctx, protocol, fsVars>>

\* A del_task that returns only when the handlers it pulled have ended.
del_task_exit_joined ==
    /\ \/ del_frame.pc = "cancel" /\ del_frame.ctxs = {}
       \/ del_frame.pc = "KeyError"
    /\ \A s \in del_frame.pulled : pc[s] = "done"
    /\ task_mgmt_lock' = "free"
    /\ LET ok == del_frame.pc = "cancel"
           t == del_frame.task_id
       IN  /\ last_call' = [op |-> "del_task", task_id |-> t,
                            ipaddr |-> del_frame.ipaddr,
                            result |-> IF ok THEN "ok" ELSE "KeyError"]
           /\ torn' = IF ~ok THEN torn
                      ELSE [torn EXCEPT ![t] =
                               IF \E ip \in DOMAIN tasks : tasks[ip] = t
                               THEN "bound" ELSE "clean"]
    /\ del_frame' = IdleFrame
    /\ UNCHANGED <<regVars, upload_max_size, pure_call, rtlog, sessVars, fsVars>>

\* A del_task that gives the lock back only when it returns normally.
del_task_exit_unreleased ==
    /\ \/ del_frame.pc = "cancel" /\ del_frame.ctxs = {}
       \/ del_frame.pc = "KeyError"
    /\ task_mgmt_lock' = IF del_frame.pc = "KeyError" THEN task_mgmt_lock ELSE "free"
    /\ LET ok == del_frame.pc = "cancel"
           t == del_frame.task_id
       IN  /\ last_call' = [op |-> "del_task", task_id |-> t,
                            ipaddr |-> del_frame.ipaddr,
                            result |-> IF ok THEN "ok" ELSE "KeyError"]
           /\ torn' = IF ~ok THEN torn
                      ELSE [torn EXCEPT ![t] =
                               IF \E ip \in DOMAIN tasks : tasks[ip] = t
                               THEN "bound" ELSE "clean"]
    /\ del_frame' = IdleFrame
    /\ UNCHANGED <<regVars, upload_max_size, pure_call, rtlog, sessVars, fsVars>>

\* del_task leaves the with block: the lock is released, and the call returns
\* or lets the KeyError out.
del_task_exit ==
    /\ \/ del_frame.pc = "cancel" /\ del_frame.ctxs = {}
       \/ del_frame.pc = "KeyError"
    /\ task_mgmt_lock' = "free"
    /\ LET ok == del_frame.pc = "cancel"
           t == del_frame.task_id
       IN  /\ last_call' = [op |-> "del_task", task_id |-> t,
                            ipaddr |-> del_frame.ipaddr,
                            result |-> IF ok THEN "ok" ELSE "KeyError"]
           /\ torn' = IF ~ok THEN torn
                      ELSE [torn EXCEPT ![t] =
                               IF \E ip \in DOMAIN tasks : tasks[ip] = t
                               THEN "bound" ELSE "clean"]
    /\ del_frame' = IdleFrame
    /\ UNCHANGED <<regVars, upload_max_size, pure_call, rtlog, sessVars, fsVars>>

\* ------------------------------------------------------------------ sockets
\* What one recv may return: n lexemes of the data the peer sends (at least
\* one, at most what the call asks for), or n = 0 for the empty result: end
\* of stream once everything sent has been read, and at any time after
\* shutdown(SHUT_RD), when the data not yet arrived is lost.
Reads(sk) ==
    { n \in 1..Len(sk.wire) : Bytes(SubSeq(sk.wire, 1, n)) <= RECV_SIZE }
        \cup (IF (sk.wire = <<>> /\ sk.closes) \/ sk.shut THEN {0} ELSE {})

\* FileUpload.handle reads its legacy header lines under settimeout(30): the
\* recv of such a line may also end in socket.timeout, the outcome TimedOut,
\* which read() lets through.
\* recv may also fail with a socket.error: RecvError stands for one that
\* read() lets through, ConnReset for ECONNRESET and BadFd for EBADF, the
\* errno of a recv on a socket that has been closed under the reader.
TimedOut == -1
RecvError == -2
ConnReset == -3
BadFd == -4

\* A read that lets ECONNRESET and EBADF through as it does other errors.
read_result_raising(n) == IF n \in { ConnReset, BadFd } THEN RecvError ELSE n

\* HandlerContext.read, what it makes of the outcome of recv: the empty
\* result for EBADF and ECONNRESET, every other outcome as it is.
read_result(n) == IF n \in { ConnReset, BadFd } THEN 0 ELSE n

\* The failures recv can end in on the socket sk.
RecvFailures(sk) == IF sk.shut THEN { BadFd } ELSE { RecvError, ConnReset }
TimedPcs == { "store_as", "path", "pids" }

\* HandlerContext.read, for the outcome n of recv.
read(sk, n) ==
    [data |-> SubSeq(sk.wire, 1, n),
     sock |-> [sk EXCEPT !.wire = SubSeq(sk.wire, n + 1, Len(sk.wire))]]

\* A read_newline that cuts the buffer at its last newline.
read_newline_last(buf) ==
    LET pos == RFind(buf, NL)
    IN  IF pos > 0
        THEN [kind |-> "line", line |-> SubSeq(buf, 1, pos - 1),
              buf |-> SubSeq(buf, pos + 1, Len(buf))]
        ELSE IF Bytes(buf) >= MAX_NETLOG_LINE
             THEN [kind |-> "LineTooLong", line |-> <<>>, buf |-> buf]
        ELSE [kind |-> "read", line |-> <<>>, buf |-> buf]

\* A read_newline that lets a buffer of exactly MAX_NETLOG_LINE bytes pass.
read_newline_strict(buf) ==
    LET pos == Find(buf, NL)
    IN  IF pos > 0
        THEN [kind |-> "line", line |-> SubSeq(buf, 1, pos - 1),
              buf |-> SubSeq(buf, pos + 1, Len(buf))]
        ELSE IF Bytes(buf) > MAX_NETLOG_LINE
             THEN [kind |-> "LineTooLong", line |-> <<>>, buf |-> buf]
        ELSE [kind |-> "read", line |-> <<>>, buf |-> buf]

\* HandlerContext.read_newline, one turn of its loop on the buffer buf: the
\* line is cut off when the buffer holds a newline, the overlong line is
\* refused, and otherwise the turn reads (needs_read).
read_newline(buf) ==
    LET pos == Find(buf, NL)
    IN  IF pos > 0
        THEN [kind |-> "line", line |-> SubSeq(buf, 1, pos - 1),
              buf |-> SubSeq(buf, pos + 1, Len(buf))]
        ELSE IF Bytes(buf) >= MAX_NETLOG_LINE
             THEN [kind |-> "LineTooLong", line |-> <<>>, buf |-> buf]
        ELSE [kind |-> "read", line |-> <<>>, buf |-> buf]

\* A drain_buffer that ends the buffering and hands out nothing.
drain_buffer_dropped(c) == [data |-> <<>>, ctx |-> [c EXCEPT !.buf = <<>>]]

\* HandlerContext.drain_buffer: the buffer is handed out and ends.
drain_buffer(c) == [data |-> c.buf, ctx |-> [c EXCEPT !.buf = <<>>]]

\* A WriteLimiter.write that does not remember its warning.
WriteLimiter_write_rewarned(p, buf) ==
    LET size == Len(buf)
        write == Min(size, p.remain)
        marker == size # 0 /\ size # write
    IN  [out |-> SubSeq(buf, 1, write) \o (IF marker THEN TRUNCATED ELSE <<>>),
         remain |-> p.remain - write,
         warned |-> p.warned \/ marker]

\* WriteLimiter.write: what reaches the wrapped file, and the limiter after.
WriteLimiter_write(p, buf) ==
    LET size == Len(buf)
        write == Min(size, p.remain)
        marker == size # 0 /\ size # write /\ ~p.warned
    IN  [out |-> SubSeq(buf, 1, write) \o (IF marker THEN TRUNCATED ELSE <<>>),
         remain |-> p.remain - write,
         warned |-> p.warned \/ marker]

\* ---------------------------------------------------------------- the files
\* An open without O_EXCL: an existing file is opened and truncated.
open_not_exclusive(dir, key, s) ==
    [ok |-> TRUE,
     dir |-> Put(dir, key, [data |-> <<>>,
                            openers |-> IF key \in DOMAIN dir
                                        THEN Append(dir[key].openers, s) ELSE <<s>>])]

\* open_exclusive: O_CREAT|O_EXCL|O_WRONLY; ok = FALSE is OSError(EEXIST).
open_exclusive(dir, key, s) ==
    IF key \in DOMAIN dir THEN [ok |-> FALSE, dir |-> dir]
    ELSE [ok |-> TRUE, dir |-> Put(dir, key, [data |-> <<>>, openers |-> <<s>>])]

\* An open for writing that keeps what the file holds.
open_wb_kept(dir, key, s) ==
    IF key \in DOMAIN dir
    THEN [ok |-> TRUE, dir |-> [dir EXCEPT ![key].openers = Append(@, s)]]
    ELSE [ok |-> TRUE, dir |-> Put(dir, key, [data |-> <<>>, openers |-> <<s>>])]

\* open(path, "wb"): created when absent, truncated when present.
open_wb(dir, key, s) ==
    [ok |-> TRUE,
     dir |-> Put(dir, key, [data |-> <<>>,
                            openers |-> IF key \in DOMAIN dir
                                        THEN Append(dir[key].openers, s) ELSE <<s>>])]

\* fd.write(data) on the descriptor of p: the bytes land at its own offset.
fd_write(dir, fd, data) ==
    IF data = <<>> THEN dir
    ELSE [dir EXCEPT ![fd.key].data = WriteAt(@, fd.off, data)]

\* A close that leaves the file open.
close_kept(p) == p

\* ProtocolHandler.close, as __exit__ calls it.
close(p) == [p EXCEPT !.fd = NoFd]

\* ------------------------------------------------------------- connections
\* The handler is left, by return or by the exception exc: __exit__ closes
\* the output file and handle() goes on to its finally block.
Leave(s, p, exc) ==
    /\ protocol' = [protocol EXCEPT ![s] = close(p)]
    /\ pc' = [pc EXCEPT ![s] = "finally"]
    /\ ctx' = [ctx EXCEPT ![s].exc = exc]

\* A handle() that registers the context without the re-check.
still_bound_unchecked(c) == TRUE

\* The re-check of handle() before it registers the context.
still_bound(c) == Get(tasks, c.ipaddr, NoTask) = c.task_id

\* A handle() that goes on whatever the lookup gave.
no_task_unchecked(task_id) == FALSE

\* "if not task_id": the lookup gave None, or a task id that is false.
no_task(task_id) == task_id = NoTask \/ task_id = 0

\* GeventResultServerWorker.handle, up to the negotiation: the lookup of the
\* task and of its dispatcher under the lock.  conv is what the peer sends.
accept(s, ipaddr, conv) ==
    /\ pc[s] = "idle"
    /\ task_mgmt_lock = "free"
    /\ sock' = [sock EXCEPT ![s] = [NoSock EXCEPT !.wire = conv.wire,
                                                   !.closes = conv.closes,
                                                   !.sent = conv.wire]]
    /\ LET task_id == Get(tasks, ipaddr, NoTask)
       IN  IF no_task(task_id)
           THEN /\ pc' = [pc EXCEPT ![s] = "done"]
                /\ ctx' = [ctx EXCEPT ![s].ipaddr = ipaddr, ![s].exc = "NoTask"]
           ELSE /\ pc' = [pc EXCEPT ![s] = "negotiate"]
                /\ ctx' = [ctx EXCEPT ![s] =
                              HandlerContext(task_id, ipaddr,
                                             Get(rthandlers, task_id, None))]
    /\ UNCHANGED <<regVars, orchVars, upload_max_size, pure_call, rtlog, protocol, hist, fsVars>>

LinePcs == { "negotiate", "store_as", "path", "pids", "realtime" }

\* What follows a line read by read_newline, by the place that asked for it:
\* negotiate_protocol; FileUpload.handle's legacy headers; the REALTIME loop.
GotLine(s, line, c) ==
    CASE pc[s] = "negotiate" ->
            LET np == negotiate_protocol(line)
            IN  /\ ctx' = [ctx EXCEPT ![s] = [c EXCEPT !.command = np.command]]
                /\ protocol' = [protocol EXCEPT ![s] = ProtocolHandler(np.klass, np.header)]
                /\ pc' = [pc EXCEPT ![s] = "attach"]
      [] pc[s] = "store_as" ->
            /\ ctx' = [ctx EXCEPT ![s] = c]
            /\ protocol' = [protocol EXCEPT ![s].header =
                   IF @.tag = "None"
                   THEN ObjHeader(line, <<>>, <<>>, None, NoPid)
                   ELSE [@ EXCEPT !.store_as = line]]
            /\ pc' = [pc EXCEPT ![s] =
                   IF protocol[s].header.tag = "None" THEN "open" ELSE "path"]
      [] pc[s] = "path" ->
            /\ ctx' = [ctx EXCEPT ![s] = c]
            /\ protocol' = [protocol EXCEPT ![s].header.path = line]
            /\ pc' = [pc EXCEPT ![s] = "pids"]
      [] pc[s] = "pids" ->
            LET pp == ParsePids(line)
            IN  IF pp.ok
                THEN /\ ctx' = [ctx EXCEPT ![s] = c]
                     /\ protocol' = [protocol EXCEPT ![s].header =
                            ObjHeader(@.store_as, @.path, pp.pids, None, NoPid)]
                     /\ pc' = [pc EXCEPT ![s] = "open"]
                ELSE /\ protocol' = [protocol EXCEPT ![s] = close(@)]
                     /\ pc' = [pc EXCEPT ![s] = "finally"]
                     /\ ctx' = [ctx EXCEPT ![s] = [c EXCEPT !.exc = "ValueError"]]
      [] pc[s] = "realtime" ->
            IF json_loads(line).ok
            THEN /\ ctx' = [ctx EXCEPT ![s] = c]
                 /\ UNCHANGED <<protocol, pc>>
            ELSE /\ protocol' = [protocol EXCEPT ![s] = close(@)]
                 /\ pc' = [pc EXCEPT ![s] = "finally"]
                 /\ ctx' = [ctx EXCEPT ![s] = [c EXCEPT !.exc = "ValueError"]]

\* An exception out of read_newline: in negotiate_protocol it ends handle()
\* before the context is registered; in a handler it ends the handler (the
\* REALTIME loop catches EOFError and returns).
LineFailed(s, exc) ==
    IF pc[s] = "negotiate"
    THEN /\ pc' = [pc EXCEPT ![s] = "done"]
         /\ ctx' = [ctx EXCEPT ![s].exc = exc]
         /\ UNCHANGED protocol
    ELSE Leave(s, protocol[s],
               IF pc[s] = "realtime" /\ exc = "EOFError" THEN None ELSE exc)

\* One turn of the loop of read_newline; n is the outcome of its recv.
read_newline_step(s, n) ==
    /\ pc[s] \in LinePcs
    /\ LET r == read_newline(ctx[s].buf)
       IN  CASE r.kind = "line" ->
                    /\ n = 0
                    /\ GotLine(s, r.line, [ctx[s] EXCEPT !.buf = r.buf])
                    /\ rtlog' = IF pc[s] = "realtime" /\ json_loads(r.line).ok
                                THEN [rtlog EXCEPT ![s] =
                                         Append(@, [op |-> "on_message",
                                                    arg |-> json_loads(r.line).val])]
                                ELSE rtlog
                    /\ hist' = [hist EXCEPT ![s].line_bytes =
                                   IF Bytes(r.line) > @ THEN Bytes(r.line) ELSE @]
                    /\ UNCHANGED sock
             [] r.kind = "LineTooLong" ->
                    /\ n = 0
                    /\ LineFailed(s, "LineTooLong")
                    /\ UNCHANGED <<sock, hist, rtlog>>
             [] r.kind = "read" ->
                    /\ \/ n \in Reads(sock[s]) \cup RecvFailures(sock[s])
                       \/ n = TimedOut /\ pc[s] \in TimedPcs /\ ~sock[s].shut
                    /\ sock' = [sock EXCEPT ![s] =
                                   IF n < 0 THEN @ ELSE read(@, n).sock]
                    /\ hist' = [hist EXCEPT ![s].body_reads =
                                   IF pc[s] = "negotiate" THEN @ ELSE 1]
                    /\ IF n = TimedOut
                       THEN LineFailed(s, "timeout")
                       ELSE IF read_result(n) = RecvError
                       THEN LineFailed(s, "socket.error")
                       ELSE IF read_result(n) = 0
                       THEN LineFailed(s, "EOFError")
                       ELSE /\ ctx' = [ctx EXCEPT ![s].buf = @ \o read(sock[s], n).data]
                            /\ UNCHANGED <<pc, protocol>>
                    /\ UNCHANGED rtlog
    /\ UNCHANGED <<regVars, orchVars, upload_max_size, pure_call, fsVars>>

\* A registration that does not give the lock back.
attach_keeps_lock(s) ==
    /\ pc[s] = "attach"
    /\ task_mgmt_lock = "free"
    /\ IF ~still_bound(ctx[s])
       THEN /\ pc' = [pc EXCEPT ![s] = "done"]
            /\ ctx' = [ctx EXCEPT ![s].exc = "NotBound"]
            /\ UNCHANGED <<handlers, hist>>
       ELSE /\ handlers' = Put(handlers, ctx[s].task_id,
                               Get(handlers, ctx[s].task_id, {}) \cup {s})
            /\ hist' = [hist EXCEPT ![s].attached = TRUE]
            /\ pc' = [pc EXCEPT ![s] = "enter"]
            /\ UNCHANGED ctx
    /\ task_mgmt_lock' = "attach"
    /\ UNCHANGED <<tasks, rthandlers, del_frame, last_call, torn, upload_max_size, pure_call, rtlog, protocol, sock, fsVars>>

\* handle(), the registration of the context under the lock.
attach(s) ==
    /\ pc[s] = "attach"
    /\ task_mgmt_lock = "free"
    /\ IF ~still_bound(ctx[s])
       THEN /\ pc' = [pc EXCEPT ![s] = "done"]
            /\ ctx' = [ctx EXCEPT ![s].exc = "NotBound"]
            /\ UNCHANGED <<handlers, hist>>
       ELSE /\ handlers' = Put(handlers, ctx[s].task_id,
                               Get(handlers, ctx[s].task_id, {}) \cup {s})
            /\ hist' = [hist EXCEPT ![s].attached = TRUE]
            /\ pc' = [pc EXCEPT ![s] = "enter"]
            /\ UNCHANGED ctx
    /\ UNCHANGED <<tasks, rthandlers, orchVars, upload_max_size, pure_call, rtlog, protocol, sock, fsVars>>

LogKey == <<"analysis.log">>
BsonKey(pid) == IF pid = 7 THEN <<"logs", "/", "7.bson">> ELSE <<"logs", "/", "n.bson">>

\* "with protocol:" and the handler's code up to its first wait: init() of
\* the class (LogHandler and BsonStore open their file in it), then the start
\* of handle().  A protocol of None has no __enter__.
enter(s) ==
    /\ pc[s] = "enter"
    /\ rtlog' = IF protocol[s].klass = "REALTIME" /\ ctx[s].rt # None
                THEN [rtlog EXCEPT ![s] = Append(@, [op |-> "start", arg |-> NoHeader])]
                ELSE rtlog
    /\ LET p == protocol[s]
           t == ctx[s].task_id
       IN  CASE p.klass = None ->
                    /\ Leave(s, p, "AttributeError")
                    /\ UNCHANGED <<fs, hist>>
             [] p.klass = "FILE" ->
                    /\ UNCHANGED <<fs, hist>>
                    /\ IF p.header.tag = "None" \/ (p.header.tag = "int" /\ p.header.n = 2)
                       THEN /\ pc' = [pc EXCEPT ![s] = "store_as"]
                            /\ UNCHANGED <<protocol, ctx>>
                       ELSE IF p.header.tag # "obj"
                            THEN Leave(s, p, "AttributeError")
                       ELSE /\ protocol' = [protocol EXCEPT ![s].response_id = p.header.rid]
                            /\ pc' = [pc EXCEPT ![s] = "open"]
                            /\ UNCHANGED ctx
             [] p.klass = "LOG" ->
                    LET o == open_exclusive(fs[t], LogKey, s)
                    IN  /\ fs' = [fs EXCEPT ![t] = o.dir]
                        /\ hist' = [hist EXCEPT ![s].opened = @ \/ o.ok]
                        /\ IF o.ok
                           THEN /\ protocol' = [protocol EXCEPT ![s].fd =
                                       [open |-> TRUE, key |-> LogKey, off |-> 0]]
                                /\ pc' = [pc EXCEPT ![s] = "drain"]
                                /\ UNCHANGED ctx
                           ELSE Leave(s, p, None)
             [] p.klass = "BSON" ->
                    IF p.header.tag # "obj"
                    THEN /\ Leave(s, p, "AttributeError")
                         /\ UNCHANGED <<fs, hist>>
                    ELSE IF p.header.pid = NoPid
                    THEN /\ Leave(s, p, None)
                         /\ UNCHANGED <<fs, hist>>
                    ELSE LET o == open_wb(fs[t], BsonKey(p.header.pid), s)
                         IN  /\ fs' = [fs EXCEPT ![t] = o.dir]
                             /\ hist' = [hist EXCEPT ![s].opened = TRUE]
                             /\ protocol' = [protocol EXCEPT ![s].fd =
                                    [open |-> TRUE, key |-> BsonKey(p.header.pid),
                                     off |-> 0]]
                             /\ pc' = [pc EXCEPT ![s] = "drain"]
                             /\ UNCHANGED ctx
             [] p.klass = "REALTIME" ->
                    /\ UNCHANGED <<fs, hist>>
                    /\ IF ctx[s].rt = None
                       THEN Leave(s, p, "AttributeError")
                       ELSE /\ pc' = [pc EXCEPT ![s] = "realtime"]
                            /\ UNCHANGED <<protocol, ctx>>
    /\ UNCHANGED <<regVars, orchVars, upload_max_size, pure_call, sock, filelog>>

\* FileUpload.handle: the dump path is checked and the destination is
\* created with open_exclusive.
file_open(s) ==
    /\ pc[s] = "open"
    /\ LET p == protocol[s]
           t == ctx[s].task_id
           dump_path == p.header.store_as
           san == netlog_sanitize_fname(dump_path)
           o == open_exclusive(fs[t], FileKey(san.path), s)
       IN  IF dump_path = <<>>
           THEN /\ Leave(s, p, "NoDumpPath")
                /\ UNCHANGED <<fs, hist>>
           ELSE IF ~san.ok
           THEN /\ Leave(s, p, "BannedPath")
                /\ UNCHANGED <<fs, hist>>
           ELSE IF ~o.ok
           THEN /\ Leave(s, p, "Overwrite")
                /\ UNCHANGED <<fs, hist>>
           ELSE /\ fs' = [fs EXCEPT ![t] = o.dir]
                /\ hist' = [hist EXCEPT ![s].opened = TRUE]
                /\ protocol' = [protocol EXCEPT
                       ![s].fd = [open |-> TRUE, key |-> FileKey(san.path), off |-> 0],
                       ![s].header.store_as = san.path]
                /\ pc' = [pc EXCEPT ![s] = "filelog"]
                /\ UNCHANGED ctx
    /\ UNCHANGED <<regVars, orchVars, upload_max_size, pure_call, rtlog, sock, filelog>>

\* The text json.dumps gives for the entry e, as one lexeme of files.json,
\* and the newline that print puts after it.
json_dumps(e) == [tok |-> "json", obj |-> e]
Newline == [tok |-> NL, obj |-> [path |-> <<>>, filepath |-> <<>>, pids |-> <<>>]]

\* A line of files.json that is not ended by a newline.
files_json_line_unterminated(e) == <<json_dumps(e)>>

\* What print(json.dumps(e), file=f) leaves in the buffer of f, written to
\* the file opened for append in one piece when the with block closes it.
files_json_line(e) == <<json_dumps(e), Newline>>

\* FileUpload.handle: the line appended to files.json.
file_log(s) ==
    /\ pc[s] = "filelog"
    /\ filelog' = [filelog EXCEPT ![ctx[s].task_id] =
           @ \o files_json_line([path |-> protocol[s].header.store_as,
                                 filepath |-> protocol[s].header.path,
                                 pids |-> protocol[s].header.pids])]
    /\ pc' = [pc EXCEPT ![s] = "drain"]
    /\ UNCHANGED <<regVars, orchVars, upload_max_size, pure_call, rtlog, ctx, protocol, sock, hist, fs>>

\* The write of copy_to_fd, through the WriteLimiter when there is one.
copy_write(s, p, data) ==
    LET w == IF p.limited THEN WriteLimiter_write(p, data)
             ELSE [out |-> data, remain |-> p.remain, warned |-> p.warned]
    IN  /\ fs' = [fs EXCEPT ![ctx[s].task_id] = fd_write(@, p.fd, w.out)]
        /\ protocol' = [protocol EXCEPT ![s] =
               [p EXCEPT !.remain = w.remain, !.warned = w.warned,
                         !.fd.off = @ + Len(w.out)]]

\* The size limit copy_to_fd is called with: upload_max_size by FileUpload,
\* none by the other handlers; 0 stands for "no limit" as it does for None.
max_size(p) == IF p.klass = "FILE" THEN upload_max_size ELSE 0

\* copy_to_fd, up to its loop: the WriteLimiter is put around the file when
\* a limit is given, and the drained buffer is written.
copy_drain(s) ==
    /\ pc[s] = "drain"
    /\ LET d == drain_buffer(ctx[s])
           p == IF max_size(protocol[s]) # 0
                THEN [protocol[s] EXCEPT !.limited = TRUE,
                                         !.remain = max_size(protocol[s])]
                ELSE protocol[s]
       IN  /\ copy_write(s, p, d.data)
           /\ ctx' = [ctx EXCEPT ![s] = d.ctx]
    /\ pc' = [pc EXCEPT ![s] = "copy"]
    /\ UNCHANGED <<regVars, orchVars, upload_max_size, pure_call, rtlog, sock, hist, filelog>>

\* copy_to_fd, one turn of its loop; n is the outcome of its recv.  A recv
\* that fails with an error other than EBADF and ECONNRESET, the outcome
\* RecvError, is raised again by read() and ends the handler.
copy_read(s, r) ==
    /\ pc[s] = "copy"
    /\ r \in Reads(sock[s]) \cup RecvFailures(sock[s])
    /\ sock' = IF r < 0 THEN sock ELSE [sock EXCEPT ![s] = read(@, read_result(r)).sock]
    /\ hist' = [hist EXCEPT ![s].body_reads = 1]
    /\ IF read_result(r) = RecvError
       THEN /\ Leave(s, protocol[s], "socket.error")
            /\ UNCHANGED fs
       ELSE IF read_result(r) = 0
       THEN /\ Leave(s, protocol[s], None)
            /\ UNCHANGED fs
       ELSE /\ copy_write(s, protocol[s], read(sock[s], read_result(r)).data)
            /\ UNCHANGED <<pc, ctx>>
    /\ UNCHANGED <<regVars, orchVars, upload_max_size, pure_call, rtlog, filelog>>

\* A finally block that discards the context and does not cancel it.
finally_uncancelled(s) ==
    /\ pc[s] = "finally"
    /\ task_mgmt_lock = "free"
    /\ handlers' = IF ctx[s].task_id \in DOMAIN handlers
                   THEN [handlers EXCEPT ![ctx[s].task_id] = @ \ {s}]
                   ELSE handlers
    /\ pc' = [pc EXCEPT ![s] = "done"]
    /\ UNCHANGED <<ctx, sock>>
    /\ UNCHANGED <<tasks, rthandlers, orchVars, upload_max_size, pure_call, rtlog, protocol, hist, fsVars>>

\* A finally block that takes the whole set of its task out of handlers.
finally_drops_set(s) ==
    /\ pc[s] = "finally"
    /\ task_mgmt_lock = "free"
    /\ handlers' = Pop(handlers, ctx[s].task_id)
    /\ sock' = [sock EXCEPT ![s] = cancel(@)]
    /\ pc' = [pc EXCEPT ![s] = "done"]
    /\ UNCHANGED ctx
    /\ UNCHANGED <<tasks, rthandlers, orchVars, upload_max_size, pure_call, rtlog, protocol, hist, fsVars>>

\* The finally block of handle(): the response is forwarded when the context
\* has a response_id (the worker has no attribute rt, so that call raises and
\* ends the block), the context is taken out of its set and cancelled.
finally(s) ==
    /\ pc[s] = "finally"
    /\ IF ctx[s].response_id # None
       THEN /\ pc' = [pc EXCEPT ![s] = "done"]
            /\ ctx' = [ctx EXCEPT ![s].exc = "AttributeError"]
            /\ UNCHANGED <<handlers, sock>>
       ELSE /\ task_mgmt_lock = "free"
            /\ handlers' = IF ctx[s].task_id \in DOMAIN handlers
                           THEN [handlers EXCEPT ![ctx[s].task_id] = @ \ {s}]
                           ELSE handlers
            /\ sock' = [sock EXCEPT ![s] = cancel(@)]
            /\ pc' = [pc EXCEPT ![s] = "done"]
            /\ UNCHANGED ctx
    /\ UNCHANGED <<tasks, rthandlers, orchVars, upload_max_size, pure_call, rtlog, protocol, hist, fsVars>>

\* ----------------------------------------------------------- what peers send
\* The payload bytes of connection s: each connection sends bytes of its own.
Payload(s) ==
    IF s = 1 THEN <<"a1", "a2", "a3", "a4", "a5", "a6">>
    ELSE <<"b1", "b2", "b3", "b4", "b5", "b6">>

Framing(kind) ==
    CASE kind = "FILE" -> <<"FILE", SP, "{\"store_as\":\"files/a\"}", NL>>
      [] kind = "FILE1" -> <<"FILE", NL, "files", "/", "a", NL>>
      [] kind = "LOG" -> <<"LOG", NL>>
      [] kind = "BSON" -> <<"BSON", SP, "{\"pid\":7}", NL>>
      [] kind = "REALTIME" -> <<"REALTIME", NL, "{}", NL>>
      [] kind = "NOPE" -> <<"NOPE", NL>>
      [] kind = "PARTIAL" -> <<"LOG">>
      [] kind = "BADJSON" -> <<"FILE", SP, "{", NL>>
      [] kind = "FILERID" ->
            <<"FILE", SP, "{\"store_as\":\"files/a\",\"rid\":1}", NL>>
      [] kind = "FILE1B" -> <<"FILE", NL, "files", "/", "b", NL>>
      [] kind = "FILE2" ->
            <<"FILE", SP, "2", NL, "files", "/", "c", NL, "p", NL, "7", ",", "8", NL>>
      [] kind = "BSON7" -> <<"BSON", SP, "7", NL>>
      [] kind = "BSON0" -> <<"BSON", NL>>
      [] kind = "BSONEMPTY" -> <<"BSON", SP, "{}", NL>>
      [] kind = "REALTIME2" -> <<"REALTIME", NL, "{}", NL, "{\"pid\":7}", NL>>
      [] kind = "REALTIMEBAD" -> <<"REALTIME", NL, "{}", NL, "{", NL, "{}", NL>>
      [] kind = "BANNED" -> <<"FILE", SP, "{\"store_as\":\"../a\"}", NL>>
      [] kind = "BANNED1" -> <<"FILE", NL, "files", "/", "a", ":", "b", NL>>
      [] kind = "RUN4095" -> <<"x4095">>
      [] kind = "RUN4096" -> <<"x4096">>
      [] kind = "RUN5000" -> <<"x5000", NL>>
      [] kind = "RUN16384" -> <<"x4095", "x16384">>
      [] kind = "LONGPATH" -> <<"FILE", NL, "files", "/", "x5000", NL>>
      [] OTHER -> <<>>

Conversation(s, kind, nbody, closes) ==
    [wire |-> Framing(kind) \o SubSeq(Payload(s), 1, nbody), closes |-> closes]

\* ---------------------------------------------------------- specifications
\* A limit no upload of the model reaches, as the default of 128 MB is.
LargeCap == 1000

\* The registry under every sequence of add_task and del_task calls for one
\* task and two addresses, with two connections that each upload one file;
\* a recv returns all that the peer has sent.
RegTasks == { 1 }
RegRTs == { "rt1" }
RegKinds == { "FILE" }
RegBodies == { 1 }

Init == InitWith({ LargeCap }) /\ pure_call = NoPureCall

Next ==
    \/ \E t \in RegTasks, ip \in IPs, rt \in RegRTs : add_task(t, ip, rt)
    \/ \E t \in RegTasks, ip \in IPs : del_task_pop(t, ip)
    \/ \E s \in Sessions : del_task_cancel(s)
    \/ del_task_exit
    \/ \E s \in Sessions, ip \in IPs, k \in RegKinds, b \in RegBodies :
          accept(s, ip, Conversation(s, k, b, TRUE))
    \/ \E s \in Sessions : read_newline_step(s, Len(sock[s].wire))
    \/ \E s \in Sessions : read_newline_step(s, 0)
    \/ \E s \in Sessions : attach(s)
    \/ \E s \in Sessions : enter(s)
    \/ \E s \in Sessions : file_open(s)
    \/ \E s \in Sessions : file_log(s)
    \/ \E s \in Sessions : copy_drain(s)
    \/ \E s \in Sessions : copy_read(s, Len(sock[s].wire))
    \/ \E s \in Sessions : copy_read(s, 0)
    \/ \E s \in Sessions : finally(s)

Spec == Init /\ [][Next]_vars

\* Two connections of one registered task that race for the same files:
\* every kind of upload that creates a file exclusively, every payload
\* length and every cut of the stream into recv results.
RaceKinds == { "FILE", "FILE1", "LOG" }

NextRace ==
    \/ add_task(1, "ipA", "rt1")
    \/ \E s \in Sessions, k \in RaceKinds, b \in 0..MaxBody :
          accept(s, "ipA", Conversation(s, k, b, TRUE))
    \/ \E s \in Sessions, n \in TimedOut..MaxChunk : read_newline_step(s, n)
    \/ \E s \in Sessions : attach(s)
    \/ \E s \in Sessions : enter(s)
    \/ \E s \in Sessions : file_open(s)
    \/ \E s \in Sessions : file_log(s)
    \/ \E s \in Sessions : copy_drain(s)
    \/ \E s \in Sessions, n \in 0..MaxChunk : copy_read(s, n)
    \/ \E s \in Sessions : finally(s)

SpecRace == Init /\ [][NextRace]_vars

\* One connection alone, for every upload limit from 0 to MaxCap, every kind
\* of stream, every payload length and every cut into recv results.
MaxCap == 2
IOKinds == { "FILE", "FILE1", "LOG", "BSON" }

InitIO == InitWith(0..MaxCap) /\ pure_call = NoPureCall

NextIO ==
    \/ add_task(1, "ipA", "rt1")
    \/ \E k \in IOKinds, b \in 0..MaxBody, c \in BOOLEAN :
          accept(1, "ipA", Conversation(1, k, b, c))
    \/ \E n \in TimedOut..MaxChunk : read_newline_step(1, n)
    \/ attach(1)
    \/ enter(1)
    \/ file_open(1)
    \/ file_log(1)
    \/ copy_drain(1)
    \/ \E n \in 0..MaxChunk : copy_read(1, n)
    \/ finally(1)

SpecIO == InitIO /\ [][NextIO]_vars

\* One connection and the orchestrator, with the scheduling the code relies
\* on: a connection that can take its next step takes it (its greenlet runs
\* when its recv has something to return), the lock is granted to a
\* connection that keeps asking for it, and a del_task that has begun runs to
\* its end.  Nothing makes a peer send or close, nor the orchestrator call.
FairKinds == { "FILE", "FILE1", "LOG", "BSON", "REALTIME", "PARTIAL" }
FairBodies == { 0, 1 }
FairSessions == { 1 }

NextFair ==
    \/ add_task(1, "ipA", "rt1")
    \/ del_task_pop(1, "ipA")
    \/ \E s \in FairSessions : del_task_cancel(s)
    \/ del_task_exit
    \/ \E s \in FairSessions, k \in FairKinds, b \in FairBodies, c \in BOOLEAN :
          accept(s, "ipA", Conversation(s, k, b, c))
    \/ \E s \in FairSessions, n \in TimedOut..MaxChunk : read_newline_step(s, n)
    \/ \E s \in FairSessions : attach(s)
    \/ \E s \in FairSessions : enter(s)
    \/ \E s \in FairSessions : file_open(s)
    \/ \E s \in FairSessions : file_log(s)
    \/ \E s \in FairSessions : copy_drain(s)
    \/ \E s \in FairSessions, n \in 0..MaxChunk : copy_read(s, n)
    \/ \E s \in FairSessions : finally(s)

\* The steps a connection takes on its own, and those it takes the lock for.
SessionStep(s) ==
    \/ \E n \in TimedOut..MaxChunk : read_newline_step(s, n)
    \/ enter(s)
    \/ file_open(s)
    \/ file_log(s)
    \/ copy_drain(s)
    \/ \E n \in 0..MaxChunk : copy_read(s, n)
LockedStep(s) == attach(s) \/ finally(s)
DelTaskStep == (\E s \in Sessions : del_task_cancel(s)) \/ del_task_exit

Fairness ==
    /\ \A s \in FairSessions : WF_vars(SessionStep(s)) /\ SF_vars(LockedStep(s))
    /\ WF_vars(DelTaskStep)

FairSpec == Init /\ [][NextFair]_vars /\ Fairness

\* One task at one address, registered and torn down in any order, and one
\* connection of every kind: well-formed ones, ones whose negotiation gives
\* no handler, refused paths, lines at and over the length limit, and
\* messages for the dispatcher, one of them not JSON.  A recv returns a
\* piece of what was sent, or all of it.
SessionKinds ==
    { "FILE", "FILERID", "LOG", "NOPE", "BADJSON", "PARTIAL", "BANNED", "BANNED1",
      "RUN4095", "RUN4096", "RUN5000", "RUN16384", "LONGPATH",
      "REALTIME", "REALTIME2", "REALTIMEBAD" }
SessionBodies == { 0, 1 }

NextSession ==
    \/ add_task(1, "ipA", "rt1")
    \/ del_task_pop(1, "ipA")
    \/ \E s \in FairSessions : del_task_cancel(s)
    \/ del_task_exit
    \/ \E s \in FairSessions, k \in SessionKinds, b \in SessionBodies, c \in BOOLEAN :
          accept(s, "ipA", Conversation(s, k, b, c))
    \/ \E s \in FairSessions, n \in TimedOut..MaxChunk : read_newline_step(s, n)
    \/ \E s \in FairSessions : read_newline_step(s, Len(sock[s].wire))
    \/ \E s \in FairSessions : attach(s)
    \/ \E s \in FairSessions : enter(s)
    \/ \E s \in FairSessions : file_open(s)
    \/ \E s \in FairSessions : file_log(s)
    \/ \E s \in FairSessions : copy_drain(s)
    \/ \E s \in FairSessions, n \in 0..MaxChunk : copy_read(s, n)
    \/ \E s \in FairSessions : finally(s)

SpecSession == Init /\ [][NextSession]_vars

\* netlog_sanitize_fname called on its own, on every path of at most MaxPath
\* of the lexemes PathLexemes, and once more on what it returns.
MaxPath == 4
PathLexemes == { "files", "logs", "..", "a", "/", "\\", ":", "NUL" }
Paths == UNION { [1..n -> PathLexemes] : n \in 0..MaxPath }

InitGuard ==
    /\ InitWith({ LargeCap })
    /\ \E path \in Paths :
          pure_call = [fn |-> "netlog_sanitize_fname", arg |-> path, ret |-> <<>>]

\* One call: on the argument first, then on the path the call before returned.
sanitize_call ==
    /\ pure_call.fn = "netlog_sanitize_fname"
    /\ Len(pure_call.ret) < 2
    /\ pure_call.ret # <<>> => pure_call.ret[Len(pure_call.ret)].ok
    /\ pure_call' = [pure_call EXCEPT !.ret =
           Append(@, netlog_sanitize_fname(
                         IF @ = <<>> THEN pure_call.arg ELSE @[Len(@)].path))]
    /\ UNCHANGED <<regVars, orchVars, upload_max_size, sessVars, fsVars, rtlog>>

NextGuard == sanitize_call

SpecGuard == InitGuard /\ [][NextGuard]_vars

\* One task at one address, registered and torn down in any order, and one
\* connection that uploads a file of every payload length, under each form
\* of the FILE and BSON headers, cut into recv
\* results in every way, the recv of the copy loop failing at any time: the
\* teardown falls at every point of the transfer.
TeardownKinds == { "FILE", "FILE1", "FILE2", "LOG", "BSON", "BSON7" }

NextTeardown ==
    \/ add_task(1, "ipA", "rt1")
    \/ del_task_pop(1, "ipA")
    \/ \E s \in FairSessions : del_task_cancel(s)
    \/ del_task_exit
    \/ \E s \in FairSessions, k \in TeardownKinds, b \in 0..MaxBody, c \in BOOLEAN :
          accept(s, "ipA", Conversation(s, k, b, c))
    \/ \E s \in FairSessions, n \in TimedOut..MaxChunk : read_newline_step(s, n)
    \/ \E s \in FairSessions : attach(s)
    \/ \E s \in FairSessions : enter(s)
    \/ \E s \in FairSessions : file_open(s)
    \/ \E s \in FairSessions : file_log(s)
    \/ \E s \in FairSessions : copy_drain(s)
    \/ \E s \in FairSessions, n \in RecvError..MaxChunk : copy_read(s, n)
    \/ \E s \in FairSessions : finally(s)

SpecTeardown == Init /\ [][NextTeardown]_vars

\* Two connections of one registered task, each of any kind: uploads and a
\* log that may collide on their file, an unknown command, a header that
\* is not JSON, a refused path and an overlong line.
IsolateKinds == { "FILE", "LOG", "NOPE", "BADJSON", "BANNED", "RUN4096" }

NextIsolate ==
    \/ add_task(1, "ipA", "rt1")
    \/ \E s \in Sessions, k \in IsolateKinds :
          accept(s, "ipA", Conversation(s, k, 1, TRUE))
    \/ \E s \in Sessions, n \in TimedOut..MaxChunk : read_newline_step(s, n)
    \/ \E s \in Sessions : attach(s)
    \/ \E s \in Sessions : enter(s)
    \/ \E s \in Sessions : file_open(s)
    \/ \E s \in Sessions : file_log(s)
    \/ \E s \in Sessions : copy_drain(s)
    \/ \E s \in Sessions, n \in 0..MaxChunk : copy_read(s, n)
    \/ \E s \in Sessions : finally(s)

SpecIsolate == Init /\ [][NextIsolate]_vars

\* One task at one address, registered with either dispatcher and torn down
\* in any order, and two connections that talk to the dispatcher or send
\* the log, and whose peer closes or stays silent.
DispatchKinds == { "REALTIME", "LOG" }

NextDispatch ==
    \/ \E rt \in RTs : add_task(1, "ipA", rt)
    \/ del_task_pop(1, "ipA")
    \/ \E s \in Sessions : del_task_cancel(s)
    \/ del_task_exit
    \/ \E s \in Sessions, k \in DispatchKinds, c \in BOOLEAN :
          accept(s, "ipA", Conversation(s, k, 0, c))
    \/ \E s \in Sessions : read_newline_step(s, Len(sock[s].wire))
    \/ \E s \in Sessions : read_newline_step(s, 0)
    \/ \E s \in Sessions : attach(s)
    \/ \E s \in Sessions : enter(s)
    \/ \E s \in Sessions : copy_drain(s)
    \/ \E s \in Sessions : copy_read(s, 0)
    \/ \E s \in Sessions : finally(s)

SpecDispatch == Init /\ [][NextDispatch]_vars

\* Two connections of one registered task that upload files under the same
\* name or under different names, with each form of the FILE header, or
\* under a path that is refused: every order of their appends to files.json.
JournalKinds == { "FILE", "FILE1B", "FILE2", "BANNED" }

NextJournal ==
    \/ add_task(1, "ipA", "rt1")
    \/ \E s \in Sessions, k \in JournalKinds :
          accept(s, "ipA", Conversation(s, k, 1, TRUE))
    \/ \E s \in Sessions, n \in TimedOut..MaxChunk : read_newline_step(s, n)
    \/ \E s \in Sessions : attach(s)
    \/ \E s \in Sessions : enter(s)
    \/ \E s \in Sessions : file_open(s)
    \/ \E s \in Sessions : file_log(s)
    \/ \E s \in Sessions : copy_drain(s)
    \/ \E s \in Sessions, n \in 0..MaxChunk : copy_read(s, n)
    \/ \E s \in Sessions : finally(s)

SpecJournal == Init /\ [][NextJournal]_vars

\* A WriteLimiter on its own: created with each limit from 0 to MaxCap, and
\* given up to MaxWrites buffers of 0 to MaxChunk bytes.  pure_call.arg holds
\* the buffers written so far, pure_call.ret the limiter as created and then
\* what each write handed to the file and left of the limiter.
MaxWrites == 3
WriteBytes == { "a", "b" }
WriteBufs == UNION { [1..n -> WriteBytes] : n \in 0..MaxChunk }

InitLimiter ==
    /\ InitWith({ LargeCap })
    /\ \E cap \in 0..MaxCap :
          pure_call = [fn |-> "WriteLimiter", arg |-> <<>>,
                       ret |-> <<[out |-> <<>>, remain |-> cap, warned |-> FALSE]>>]

limiter_write(buf) ==
    /\ pure_call.fn = "WriteLimiter"
    /\ Len(pure_call.arg) < MaxWrites
    /\ pure_call' = [pure_call EXCEPT
           !.arg = Append(@, buf),
           !.ret = Append(@, WriteLimiter_write(pure_call.ret[Len(pure_call.ret)], buf))]
    /\ UNCHANGED <<regVars, orchVars, upload_max_size, sessVars, fsVars, rtlog>>

NextLimiter == \E buf \in WriteBufs : limiter_write(buf)

SpecLimiter == InitLimiter /\ [][NextLimiter]_vars

\* Two tasks at one address: add_task and del_task for either task, in any
\* order, also for the address while it is bound to the other task and for
\* a task that is not registered, task 1 with either dispatcher, and two
\* connections that send a log.
NextRegistry ==
    \/ \E rt \in RTs : add_task(1, "ipA", rt)
    \/ add_task(2, "ipA", "rt2")
    \/ \E t \in TaskIds : del_task_pop(t, "ipA")
    \/ \E s \in Sessions : del_task_cancel(s)
    \/ del_task_exit
    \/ \E s \in Sessions : accept(s, "ipA", Conversation(s, "LOG", 0, TRUE))
    \/ \E s \in Sessions : read_newline_step(s, Len(sock[s].wire))
    \/ \E s \in Sessions : attach(s)
    \/ \E s \in Sessions : enter(s)
    \/ \E s \in Sessions : copy_drain(s)
    \/ \E s \in Sessions : copy_read(s, 0)
    \/ \E s \in Sessions : finally(s)

SpecRegistry == Init /\ [][NextRegistry]_vars

\* One registered task and two connections that each send a BSON stream:
\* with the pid in a JSON object, with the pid as a bare number, with an
\* object that has no pid, and with no header at all.
BsonKinds == { "BSON", "BSON7", "BSON0", "BSONEMPTY" }

NextBson ==
    \/ add_task(1, "ipA", "rt1")
    \/ \E s \in Sessions, k \in BsonKinds, b \in 0..MaxChunk :
          accept(s, "ipA", Conversation(s, k, b, TRUE))
    \/ \E s \in Sessions : read_newline_step(s, Len(sock[s].wire))
    \/ \E s \in Sessions, n \in 0..MaxChunk : read_newline_step(s, n)
    \/ \E s \in Sessions : attach(s)
    \/ \E s \in Sessions : enter(s)
    \/ \E s \in Sessions : copy_drain(s)
    \/ \E s \in Sessions, n \in 0..MaxChunk : copy_read(s, n)
    \/ \E s \in Sessions : finally(s)

SpecBson == Init /\ [][NextBson]_vars

\* One task at one address, registered and torn down in any order, and one
\* connection that sends a file or a log; every recv, of a header line or of
\* the body, returns a piece of what was sent or fails: with a timeout where
\* one is set, a connection reset, a closed descriptor after the socket was
\* shut down, or another socket error.
RecvKinds == { "FILE", "FILE1", "LOG", "BSON" }

NextRecv ==
    \/ add_task(1, "ipA", "rt1")
    \/ del_task_pop(1, "ipA")
    \/ \E s \in FairSessions : del_task_cancel(s)
    \/ del_task_exit
    \/ \E s \in FairSessions, k \in RecvKinds, b \in 0..MaxChunk, c \in BOOLEAN :
          accept(s, "ipA", Conversation(s, k, b, c))
    \/ \E s \in FairSessions, n \in BadFd..MaxChunk : read_newline_step(s, n)
    \/ \E s \in FairSessions : attach(s)
    \/ \E s \in FairSessions : enter(s)
    \/ \E s \in FairSessions : file_open(s)
    \/ \E s \in FairSessions : file_log(s)
    \/ \E s \in FairSessions : copy_drain(s)
    \/ \E s \in FairSessions, n \in BadFd..MaxChunk : copy_read(s, n)
    \/ \E s \in FairSessions : finally(s)

SpecRecv == Init /\ [][NextRecv]_vars

\* The same, del_task running on once it has been called.
FairRegistry == SpecRegistry /\ WF_vars(DelTaskStep)

\* One address bound to task 0 or to task 1, and two connections from it
\* that each send a log.
ZeroTasks == { 0, 1 }

NextZero ==
    \/ \E t \in ZeroTasks : add_task(t, "ipA", "rt1")
    \/ \E s \in Sessions, b \in 0..MaxChunk :
          accept(s, "ipA", Conversation(s, "LOG", b, TRUE))
    \/ \E s \in Sessions, n \in 0..MaxChunk : read_newline_step(s, n)
    \/ \E s \in Sessions : attach(s)
    \/ \E s \in Sessions : enter(s)
    \/ \E s \in Sessions : copy_drain(s)
    \/ \E s \in Sessions, n \in 0..MaxChunk : copy_read(s, n)
    \/ \E s \in Sessions : finally(s)

SpecZero == Init /\ [][NextZero]_vars

\* ------------------------------------------------- vocabulary of the claims
HandlerPcs ==
    { "enter", "store_as", "path", "pids", "open", "filelog", "drain", "copy",
      "realtime" }

IsPrefix(a, b) == Len(a) <= Len(b) /\ a = SubSeq(b, 1, Len(a))

\* The framing lines of a stream, by the wire protocol: one line, two for a
\* FILE command without header, four for the FILE header 2.
FramingLines(stream) ==
    LET first == SubSeq(stream, 1, Find(stream, NL) - 1)
    IN  IF first = <<"FILE">> THEN 2
        ELSE IF first = <<"FILE", SP, "2">> THEN 4
        ELSE 1

RECURSIVE AfterLines(_, _)
AfterLines(stream, k) ==
    IF k = 0 THEN stream
    ELSE LET i == Find(stream, NL)
         IN  IF i = 0 THEN <<>>
             ELSE AfterLines(SubSeq(stream, i + 1, Len(stream)), k - 1)

\* The bytes the peer of connection s sends after its framing lines.
BodyOf(s) == AfterLines(sock[s].sent, FramingLines(sock[s].sent))

\* The output file of connection s, once its handler knows it.
OutputKey(s) ==
    CASE protocol[s].klass = "LOG" -> LogKey
      [] protocol[s].klass = "BSON" -> BsonKey(protocol[s].header.pid)
      [] OTHER -> FileKey(ReplaceBackslash(protocol[s].header.store_as))

IsUpload(s) == protocol[s].klass = "FILE" /\ protocol[s].header.store_as # <<>>

\* A FILE connection that has been through its exclusive create.
PastOpen(s) ==
    /\ IsUpload(s)
    /\ \/ pc[s] \in { "filelog", "drain", "copy" }
       \/ pc[s] \in { "finally", "done" } /\ ctx[s].exc \in { None, "Overwrite" }

Registered(s) == \E t \in DOMAIN handlers : s \in handlers[t]

\* ------------------------------------------------------------------ claims
\* C1: of two FILE uploads of one task with the same store_as, in every
\* interleaving, at most one creates the destination; the other, once it has
\* tried, has failed with the overwrite error; and the file holds bytes of
\* the upload that created it only, in the order it sent them.
C1_ExclusiveUpload ==
    \A s1 \in Sessions : \A s2 \in Sessions \ {s1} :
        ( /\ IsUpload(s1) /\ IsUpload(s2)
          /\ ctx[s1].task_id = ctx[s2].task_id
          /\ OutputKey(s1) = OutputKey(s2) )
        => /\ ~(hist[s1].opened /\ hist[s2].opened)
           /\ (hist[s1].opened /\ PastOpen(s2)) => ctx[s2].exc = "Overwrite"
           /\ hist[s1].opened =>
                 LET f == fs[ctx[s1].task_id][OutputKey(s1)]
                 IN  f.openers = <<s1>> /\ IsPrefix(f.data, BodyOf(s1))

\* C1 witness: one upload has created the file and stored bytes in it while
\* the other has failed with the overwrite error.
C1_Witness ==
    \E s1 \in Sessions : \E s2 \in Sessions \ {s1} :
        /\ hist[s1].opened /\ IsUpload(s1) /\ pc[s1] = "copy"
        /\ fs[ctx[s1].task_id][OutputKey(s1)].data # <<>>
        /\ IsUpload(s2) /\ ctx[s2].exc = "Overwrite"

\* C2: del_task(t, ip) takes by_ip[ip], rt_by_task[t] and
\* sessions_by_task[t] out in the one critical section it holds, so that
\* from its pops to its return none of the three is there, and by its end it
\* has called cancel() on every session that was in sessions_by_task[t].
C2_DelTaskRemovesAndCancels ==
    del_frame.pc # "idle" =>
        /\ del_frame.ipaddr \notin DOMAIN tasks
        /\ del_frame.task_id \notin DOMAIN rthandlers
        /\ del_frame.task_id \notin DOMAIN handlers
        /\ (del_frame.pc = "KeyError" \/ del_frame.ctxs = {}) =>
              \A s \in del_frame.pulled : hist[s].cancelled

\* The write of a step to the files of task t: a line of files.json, or
\* bytes in a file of the directory.
WritesBytes(t) ==
    \/ filelog'[t] # filelog[t]
    \/ \E k \in DOMAIN fs'[t] :
          /\ fs'[t][k].data # <<>>
          /\ k \in DOMAIN fs[t] => fs'[t][k].data # fs[t][k].data

\* The connection whose step it is.
Acts(s) == pc'[s] # pc[s] \/ protocol'[s] # protocol[s] \/ ctx'[s] # ctx[s]

\* A write to the files of task t is the write of a running handler that
\* del_task has cancelled.
OnlyCancelledWrite(t) ==
    WritesBytes(t) =>
        \E s \in Sessions :
            /\ Acts(s) /\ ctx[s].task_id = t
            /\ pc[s] \in HandlerPcs /\ hist[s].cancelled

\* C3, as stated: once a del_task(t, ip) has returned, and until t is
\* registered again, the only writes to the files of task t are those of
\* handlers that del_task has cancelled and that have not exited yet.
C3_NoWriteAfterDelTask ==
    [][\A t \in TaskIds : torn[t] # "no" => OnlyCancelledWrite(t)]_vars

\* C3, amended: the same, for a del_task(t, ip) that returns with no address
\* bound to t any more.
C3_NoWriteAfterCleanDelTask ==
    [][\A t \in TaskIds : torn[t] = "clean" => OnlyCancelledWrite(t)]_vars

\* C3 witness: del_task has returned with the task unbound, and a handler it
\* has cancelled has bytes in hand that it read before, to write them next.
C3_Witness ==
    \E s \in Sessions :
        /\ hist[s].cancelled /\ pc[s] = "drain" /\ ctx[s].buf # <<>>
        /\ torn[ctx[s].task_id] = "clean" /\ del_frame.pc = "idle"

\* C4: a session whose running handler has been cancelled gets, without the
\* peer sending or closing, to its end: its handler has ended, its output
\* file is closed and it is in no set of sessions_by_task.
C4_CancelledHandlerTerminates ==
    \A s \in FairSessions :
        (hist[s].cancelled /\ pc[s] \in HandlerPcs)
            ~> (pc[s] = "done" /\ ~protocol[s].fd.open /\ ~Registered(s))

\* C4 witness: a cancelled session is at its end though its peer has not
\* closed: its copy loop was ended by the empty read of the shut socket.
C4_Witness ==
    \E s \in Sessions :
        /\ hist[s].cancelled /\ pc[s] = "done" /\ ~sock[s].closes
        /\ hist[s].opened /\ hist[s].body_reads = 1
        /\ ~protocol[s].fd.open /\ ~Registered(s)

\* C5: every session bound to task t when del_task(t, ip) took the task out
\* gets to its end, the negotiating ones too, whatever its peer does.
C5_TornDownSessionTerminates ==
    \A s \in FairSessions : (hist[s].torn_at # "no") ~> (pc[s] = "done")

\* C6: a del_task(t, ip) that repeats the call before it, which returned,
\* returns too and leaves by_ip, rt_by_task and sessions_by_task as it found
\* them.
C6_RepeatedDelTaskIsNoop ==
    (del_frame.pc # "idle" /\ del_frame.repeat) =>
        /\ del_frame.pc # "KeyError"
        /\ del_frame.entry = <<tasks, rthandlers, handlers>>

\* A session torn down while negotiating has not been registered, has run no
\* handler and has opened no file, as long as it has not been registered.
NotAttachedIsIdle(s) ==
    (hist[s].torn_at = "negotiating" /\ ~hist[s].attached) =>
        /\ pc[s] \in { "negotiate", "attach", "done" }
        /\ ~hist[s].opened /\ ~protocol[s].fd.open /\ ~Registered(s)

\* C7, as stated: a session whose task was torn down while it negotiated is
\* never registered, runs no handler and opens no file.
C7_TornDownInNegotiationNeverAttached ==
    \A s \in Sessions :
        hist[s].torn_at = "negotiating" =>
            ~hist[s].attached /\ NotAttachedIsIdle(s)

\* C7, amended: a session whose task was torn down while it negotiated, and
\* whose address is not bound to that task when its negotiation is over,
\* ends there: it is never registered, runs no handler, and no file is
\* created or written.
C7_UnboundAfterNegotiationNeverAttached ==
    /\ [](\A s \in Sessions : NotAttachedIsIdle(s))
    /\ [][\A s \in Sessions :
            ( /\ hist[s].torn_at = "negotiating" /\ pc[s] = "attach"
              /\ pc'[s] # "attach"
              /\ Get(tasks, ctx[s].ipaddr, NoTask) # ctx[s].task_id )
            => /\ pc'[s] = "done" /\ ~hist'[s].attached
               /\ handlers' = handlers /\ fs' = fs /\ filelog' = filelog]_vars

\* C7 witness: a session torn down while negotiating has been turned away
\* at the re-check.
C7_Witness ==
    \E s \in Sessions :
        /\ hist[s].torn_at = "negotiating" /\ pc[s] = "done"
        /\ ctx[s].exc = "NotBound" /\ ~hist[s].attached

\* A FILE upload that its peer has ended: the handler has read to the end of
\* the stream and returned.
UploadEnded(s) ==
    /\ IsUpload(s) /\ hist[s].opened /\ ~hist[s].cancelled
    /\ pc[s] \in { "finally", "done" } /\ ctx[s].exc = None

Truncated(body, cap) ==
    SubSeq(body, 1, Min(Len(body), cap))
        \o (IF Len(body) > cap THEN TRUNCATED ELSE <<>>)

\* C8, as stated: for every limit C and every cut of the stream, an ended
\* FILE upload of L body bytes leaves the first min(L, C) of them in its
\* file, followed by the marker iff L > C.
C8_FileIsBodyUpToLimit ==
    \A s \in Sessions :
        UploadEnded(s) =>
            fs[ctx[s].task_id][OutputKey(s)].data
                = Truncated(BodyOf(s), upload_max_size)

\* C8, amended: the same for every limit C >= 1; under the limit 0 the file
\* holds the whole body and no marker.
C8_FileIsBodyUpToPositiveLimit ==
    \A s \in Sessions :
        UploadEnded(s) =>
            fs[ctx[s].task_id][OutputKey(s)].data
                = IF upload_max_size >= 1
                  THEN Truncated(BodyOf(s), upload_max_size)
                  ELSE BodyOf(s)

\* C8 witness: an ended upload longer than its limit, cut off and marked.
C8_Witness ==
    \E s \in Sessions :
        /\ UploadEnded(s) /\ upload_max_size >= 1
        /\ Len(BodyOf(s)) > upload_max_size
        /\ fs[ctx[s].task_id][OutputKey(s)].data
              = SubSeq(BodyOf(s), 1, upload_max_size) \o TRUNCATED

\* C9: a FILE, LOG or BSON session that is neither cut off by the limit nor
\* cancelled has, while it copies, written all the body bytes it has received
\* (the file followed by what is still to arrive is the body), and at the end
\* of the stream its file is the body.
C9_OutputIsBody ==
    \A s \in Sessions :
        ( /\ hist[s].opened /\ ~hist[s].cancelled /\ ~protocol[s].warned
          /\ protocol[s].klass \in { "FILE", "LOG", "BSON" } )
        => LET data == fs[ctx[s].task_id][OutputKey(s)].data
           IN  /\ pc[s] = "copy" => data \o sock[s].wire = BodyOf(s)
               /\ (pc[s] \in { "finally", "done" } /\ ctx[s].exc = None)
                     => data = BodyOf(s)

\* C9 witness: the session has written body bytes without a recv of its
\* own after the negotiation: they came with a framing newline.
C9_Witness ==
    \E s \in Sessions :
        /\ hist[s].opened /\ pc[s] = "copy" /\ hist[s].body_reads = 0
        /\ ~protocol[s].limited
        /\ fs[ctx[s].task_id][OutputKey(s)].data # <<>>
        /\ sock[s].wire # <<>>

\* A LOG session whose handler has been set up.
IsLog(s) ==
    /\ protocol[s].klass = "LOG" /\ hist[s].attached
    /\ pc[s] \in { "drain", "copy", "finally", "done" }

\* C10: of the LOG sessions of a task at most one opens analysis.log, and
\* the file holds bytes of that one only; every other LOG session ends
\* without a recv after its negotiation and without a file of its own.
C10_LogOpenedOnce ==
    \A s1 \in Sessions : \A s2 \in Sessions \ {s1} :
        ( /\ IsLog(s1) /\ IsLog(s2) /\ ctx[s1].task_id = ctx[s2].task_id )
        => /\ ~(hist[s1].opened /\ hist[s2].opened)
           /\ hist[s1].opened =>
                 /\ LET f == fs[ctx[s1].task_id][LogKey]
                    IN  f.openers = <<s1>> /\ IsPrefix(f.data, BodyOf(s1))
                 /\ pc[s2] \in { "finally", "done" }
                 /\ hist[s2].body_reads = 0 /\ ~protocol[s2].fd.open

\* C10 witness: one LOG session has written analysis.log and another, with
\* body bytes waiting on its socket, has ended without reading them.
C10_Witness ==
    \E s1 \in Sessions : \E s2 \in Sessions \ {s1} :
        /\ IsLog(s1) /\ hist[s1].opened /\ fs[ctx[s1].task_id][LogKey].data # <<>>
        /\ IsLog(s2) /\ ~hist[s2].opened /\ pc[s2] = "done"
        /\ hist[s2].body_reads = 0 /\ sock[s2].wire # <<>>

\* C11: a connection from an address that is no key of by_ip ends at its
\* lookup: no byte of it is read, it is registered with no task and no file
\* is created or written, then or later.
C11_UnknownPeerIsTurnedAway ==
    /\ [][\A s \in Sessions :
            (pc[s] = "idle" /\ pc'[s] # "idle" /\ ctx'[s].ipaddr \notin DOMAIN tasks)
            => /\ pc'[s] = "done" /\ ctx'[s].exc = "NoTask"
               /\ handlers' = handlers /\ fs' = fs /\ filelog' = filelog]_vars
    /\ [](\A s \in Sessions :
            ctx[s].exc = "NoTask"
            => /\ pc[s] = "done" /\ sock[s].wire = sock[s].sent
               /\ hist[s] = NoHist /\ ~protocol[s].fd.open /\ ~Registered(s))

\* C11 witness: a connection from an unbound address is over with all that
\* its peer sent unread.
C11_Witness ==
    \E s \in Sessions :
        /\ pc[s] = "done" /\ ctx[s].exc = "NoTask"
        /\ ctx[s].ipaddr \notin DOMAIN tasks
        /\ sock[s].wire # <<>> /\ sock[s].wire = sock[s].sent

\* The path with its backslashes replaced, cut at its last "/": what is
\* before that "/" and what is after it (all of it when there is no "/").
LastSlash(p) == IF \E i \in 1..Len(p) : p[i] = "/"
                THEN CHOOSE i \in 1..Len(p) : p[i] = "/" /\ \A j \in (i + 1)..Len(p) : p[j] # "/"
                ELSE 0
DirPart(path) == SubSeq(ReplaceBackslash(path), 1, LastSlash(ReplaceBackslash(path)) - 1)
NamePart(path) ==
    SubSeq(ReplaceBackslash(path), LastSlash(ReplaceBackslash(path)) + 1, Len(path))

\* d without the slashes it ends with.
WithoutTrailingSlashes(d) ==
    SubSeq(d, 1, IF \E k \in 1..Len(d) : d[k] # "/"
                 THEN CHOOSE k \in 1..Len(d) : d[k] # "/" /\ \A j \in (k + 1)..Len(d) : d[j] = "/"
                 ELSE 0)

NameIsClean(path) == \A k \in 1..Len(NamePart(path)) : NamePart(path)[k] \notin { "NUL", ":" }

C13_SanitizeIdempotent ==
    Len(pure_call.ret) = 2 =>
        /\ pure_call.ret[1].ok
        /\ pure_call.ret[2] = pure_call.ret[1]

\* C13 witness: a path whose first call replaced a backslash has gone
\* through the second call.
C13_Witness ==
    /\ Len(pure_call.ret) = 2 /\ pure_call.ret[2].ok
    /\ \E i \in 1..Len(pure_call.arg) : pure_call.arg[i] = "\\"

\* The on_message calls made for connection s with its header.
Forwarded(s) ==
    { i \in 1..Len(rtlog[s]) :
        rtlog[s][i] = [op |-> "on_message", arg |-> protocol[s].header] }

CarriesRid(s) ==
    /\ protocol[s].klass = "FILE" /\ protocol[s].header.tag = "obj"
    /\ protocol[s].header.rid # None /\ hist[s].attached

\* C14: a FILE session whose header carries rid has it as its response_id
\* from the time its handler has read the header, and when the session is
\* over on_message has been called with the header exactly once.
C14_RidIsForwardedOnce ==
    \A s \in Sessions :
        CarriesRid(s) =>
            /\ pc[s] \in { "open", "filelog", "drain", "copy", "finally", "done" }
                  => ctx[s].response_id = protocol[s].header.rid
            /\ pc[s] = "done" => Cardinality(Forwarded(s)) = 1

\* The negotiation of connection s is over and has given no handler.
NoHandler(s) ==
    /\ pc[s] \notin { "idle", "negotiate" } /\ ctx[s].exc # "NoTask"
    /\ protocol[s].klass = None

\* C15: a session whose negotiation gave no handler is never registered in
\* sessions_by_task, runs no handler and opens no file: it is at the end of
\* its negotiation or over.
C15_NoHandlerNeverAttached ==
    \A s \in Sessions :
        NoHandler(s) =>
            /\ ~hist[s].attached /\ ~Registered(s)
            /\ pc[s] \in { "attach", "done" }
            /\ ~hist[s].opened /\ ~protocol[s].fd.open

\* C16: a session is in a set of sessions_by_task only if its negotiation
\* gave a handler and that handler has been started and has not been left
\* for longer than it takes to get the lock.
C16_RegisteredOnlyWhileHandling ==
    \A s \in Sessions :
        Registered(s) =>
            /\ protocol[s].klass # None
            /\ pc[s] \in HandlerPcs \cup { "finally" }

\* A session that has been bound to a task at accept time.
Bound(s) == pc[s] # "idle" /\ ctx[s].exc # "NoTask"

\* C17, as stated: whatever add_task and del_task calls have been made,
\* every task an address is bound to has its dispatcher registered, and
\* every session bound at accept time has got one.
C17_BoundTaskHasDispatcher ==
    /\ \A ip \in DOMAIN tasks : tasks[ip] \in DOMAIN rthandlers
    /\ \A s \in Sessions : Bound(s) => ctx[s].rt # None

\* No del_task for task t has been called since t was last registered.
NotTornDown(t) ==
    torn[t] = "no" /\ ~(del_frame.pc # "idle" /\ del_frame.task_id = t)

\* C17, amended: the same for the tasks for which no del_task has been
\* called since add_task last registered them, and for the sessions bound
\* to such a task at accept time.
C17_RegisteredTaskHasDispatcher ==
    /\ [](\A ip \in DOMAIN tasks :
            NotTornDown(tasks[ip]) => tasks[ip] \in DOMAIN rthandlers)
    /\ [][\A s \in Sessions :
            ( /\ pc[s] = "idle" /\ pc'[s] = "negotiate"
              /\ NotTornDown(ctx'[s].task_id) )
            => ctx'[s].rt = rthandlers[ctx'[s].task_id]]_vars

\* C17 witness: a session has been bound to a registered task and holds
\* its dispatcher.
C17_Witness ==
    \E s \in Sessions :
        /\ pc[s] = "negotiate" /\ ctx[s].rt \in RTs
        /\ ctx[s].ipaddr \in DOMAIN tasks
        /\ tasks[ctx[s].ipaddr] = ctx[s].task_id /\ NotTornDown(ctx[s].task_id)

\* read_newline is called on a buffer that holds no newline and
\* MAX_NETLOG_LINE bytes or more.
Overlong(s) ==
    /\ pc[s] \in LinePcs
    /\ \A i \in 1..Len(ctx[s].buf) : ctx[s].buf[i] # NL
    /\ Bytes(ctx[s].buf) >= MAX_NETLOG_LINE

\* C18: with MAX_NETLOG_LINE bytes or more and no newline received for the
\* line, read_newline reads no further and fails with the overlong-line
\* error, which ends the session's reading with its file closed; the error
\* comes about in no other way.
C18_OverlongLineFails ==
    /\ [][\A s \in Sessions :
            (Overlong(s) /\ Acts(s))
            => /\ ctx'[s].exc = "LineTooLong" /\ sock'[s] = sock[s]
               /\ pc'[s] \in { "finally", "done" }
               /\ ~protocol'[s].fd.open]_vars
    /\ [](\A s \in Sessions :
            ctx[s].exc = "LineTooLong"
            => /\ pc[s] \in { "finally", "done" } /\ ~protocol[s].fd.open
               /\ Bytes(ctx[s].buf) >= MAX_NETLOG_LINE)

\* C18 witness: the error has been raised on exactly MAX_NETLOG_LINE bytes.
C18_Witness ==
    \E s \in Sessions :
        /\ ctx[s].exc = "LineTooLong" /\ pc[s] = "done"
        /\ Bytes(ctx[s].buf) = MAX_NETLOG_LINE

\* C19: the carry buffer of a session never holds more than MAX_NETLOG_LINE
\* bytes, and no line read_newline has returned is longer than that.
C19_BufferAndLineBounded ==
    \A s \in Sessions :
        /\ Bytes(ctx[s].buf) <= MAX_NETLOG_LINE
        /\ hist[s].line_bytes <= MAX_NETLOG_LINE

\* The path guard rejects the store_as of the upload of connection s, by the
\* whitelist of directories and the banned characters.
GuardRejects(s) ==
    /\ IsUpload(s)
    /\ ~ ( /\ WithoutTrailingSlashes(DirPart(protocol[s].header.store_as))
                \in RESULT_UPLOADABLE
           /\ NameIsClean(protocol[s].header.store_as) )

\* C20: a FILE request whose store_as the path guard rejects creates no file
\* and appends no line to files.json, and its handler is left with the file
\* closed; once handle() has returned for it, the session is in no handler
\* set and its socket is shut down, and a del_task for its task, called
\* while the task is registered, finds the dispatcher and goes on to return.
C20_RejectedUploadLeavesNothing ==
    /\ [][\A s \in Sessions :
            (pc[s] = "open" /\ GuardRejects(s) /\ Acts(s))
            => /\ fs' = fs /\ filelog' = filelog
               /\ ctx'[s].exc = "BannedPath" /\ pc'[s] = "finally"
               /\ ~protocol'[s].fd.open]_vars
    /\ [](\A s \in Sessions :
            ctx[s].exc = "BannedPath"
            => /\ GuardRejects(s) /\ ~hist[s].opened /\ ~protocol[s].fd.open
               /\ pc[s] \in { "finally", "done" }
               /\ pc[s] = "done" => (~Registered(s) /\ sock[s].shut))
    /\ [][\A s \in Sessions :
            ( /\ ctx[s].exc = "BannedPath" /\ pc[s] = "done"
              /\ del_frame.pc = "idle" /\ del_frame'.pc # "idle"
              /\ del_frame'.task_id = ctx[s].task_id
              /\ ctx[s].ipaddr \in DOMAIN tasks
              /\ tasks[ctx[s].ipaddr] = ctx[s].task_id
              /\ NotTornDown(ctx[s].task_id) )
            => (del_frame'.pc = "cancel" /\ s \notin del_frame'.ctxs)]_vars

\* C20 witness: a rejected upload is over, and a del_task for its task,
\* called after that, has returned.
C20_Witness ==
    \E s \in Sessions :
        /\ ctx[s].exc = "BannedPath" /\ pc[s] = "done"
        /\ hist[s].torn_at = "no"
        /\ last_call.op = "del_task" /\ last_call.result = "ok"
        /\ last_call.task_id = ctx[s].task_id
        /\ fs[ctx[s].task_id] = EmptyDict /\ filelog[ctx[s].task_id] = <<>>

\* A body transfer is in progress on connection s: its handler has opened
\* the output file and copies.
Transferring(s) == hist[s].opened /\ pc[s] \in { "drain", "copy" }

\* C21: a del_task called while a FILE body transfer of its task is in
\* progress has, in every state until it returns, a step of its own to take
\* whatever the uploader and the handler do; it takes no file away; and the
\* destination, from its creation on, holds a prefix of the body sent.
C21_DelTaskDoesNotWaitFileKept ==
    /\ [](del_frame.pc # "idle" => ENABLED DelTaskStep)
    /\ [][del_frame' # del_frame => fs' = fs]_vars
    /\ [](\A s \in Sessions :
            (IsUpload(s) /\ hist[s].opened)
            => /\ OutputKey(s) \in DOMAIN fs[ctx[s].task_id]
               /\ IsPrefix(fs[ctx[s].task_id][OutputKey(s)].data, BodyOf(s)))

\* C21 witness: del_task has returned while the handler is still in its copy
\* loop and the uploader has not sent everything; the file holds the bytes
\* received so far, a part of the body.
C21_Witness ==
    \E s \in Sessions :
        /\ IsUpload(s) /\ hist[s].opened /\ pc[s] = "copy"
        /\ hist[s].torn_at = "handling"
        /\ last_call.op = "del_task" /\ last_call.result = "ok"
        /\ del_frame.pc = "idle"
        /\ fs[ctx[s].task_id][OutputKey(s)].data # <<>>
        /\ fs[ctx[s].task_id][OutputKey(s)].data # BodyOf(s)

\* The errors that end a session: raised in its negotiation or its handler.
SessionErrors ==
    { "AttributeError", "LineTooLong", "BannedPath", "Overwrite", "NoDumpPath",
      "ValueError", "timeout" }

\* C22: a step in which a session fails, or goes on to its end after it has
\* failed, leaves alone the bindings and dispatchers of the registry, the
\* membership of every other session in the handler sets, the lock, every
\* other connection and every file; and an upload or log that ends without
\* error has stored its own body whatever became of the other connection.
C22_ErrorsAreIsolated ==
    /\ [][\A s \in Sessions :
            (Acts(s) /\ ctx'[s].exc \in SessionErrors)
            => /\ tasks' = tasks /\ rthandlers' = rthandlers
               /\ task_mgmt_lock' = task_mgmt_lock
               /\ \A t \in TaskIds :
                     Get(handlers', t, {}) \ {s} = Get(handlers, t, {}) \ {s}
               /\ \A o \in Sessions \ {s} :
                     /\ pc'[o] = pc[o] /\ ctx'[o] = ctx[o]
                     /\ protocol'[o] = protocol[o] /\ sock'[o] = sock[o]
               /\ fs' = fs /\ filelog' = filelog]_vars
    /\ [](\A o \in Sessions :
            ( /\ hist[o].opened /\ protocol[o].klass \in { "FILE", "LOG" }
              /\ pc[o] = "done" /\ ctx[o].exc = None )
            => fs[ctx[o].task_id][OutputKey(o)].data = BodyOf(o))

\* C22 witness: one session has ended on the error of an unknown command
\* after it was registered, and the other, registered too, is being served:
\* it has stored bytes and goes on copying.
C22_Witness ==
    \E s \in Sessions : \E o \in Sessions \ {s} :
        /\ pc[s] = "done" /\ ctx[s].exc = "AttributeError" /\ hist[s].attached
        /\ pc[o] = "copy" /\ hist[o].opened /\ Registered(o)
        /\ fs[ctx[o].task_id][OutputKey(o)].data # <<>>

\* C23: a connection holds an open output file only while its handler runs:
\* however the handler is left, by the end of the stream, by a cancellation
\* or by an error, the file it opened is closed by that step, and a session
\* in its finally block or at its end holds none.
C23_FileClosedOnEveryExit ==
    /\ [][\A s \in Sessions :
            (pc[s] \in HandlerPcs /\ pc'[s] \notin HandlerPcs)
            => ~protocol'[s].fd.open]_vars
    /\ [](\A s \in Sessions : pc[s] \notin HandlerPcs => ~protocol[s].fd.open)

\* C23 witness: a handler that had opened its file and stored bytes in it
\* was ended by the error of a recv, and the file is closed.
C23_Witness ==
    \E s \in Sessions :
        /\ hist[s].opened /\ ctx[s].exc = "socket.error" /\ pc[s] = "done"
        /\ fs[ctx[s].task_id][OutputKey(s)].data # <<>>
        /\ ~protocol[s].fd.open

\* The step is a call of cancel() by del_task on connection s.
Cancels(s) == hist'[s].cancelled /\ ~hist[s].cancelled

C25_AttachedHoldRegistered ==
    \A t \in DOMAIN handlers : \A s \in handlers[t] :
        t \in DOMAIN rthandlers /\ ctx[s].rt = rthandlers[t]

\* Every connection that has a context holds what rthandlers has for its
\* task: the dispatcher, or None when there is no entry.
HoldsRegistered ==
    \A s \in Sessions :
        ctx[s].task_id # NoTask =>
            ctx[s].rt = Get(rthandlers, ctx[s].task_id, None)

\* C25, amended: a session holds, from its accept to its end, what rthandlers
\* had for its task when it was accepted; so the sessions of a task hold the
\* same dispatcher, the registered one, across every step that leaves
\* rthandlers as it is, that is until add_task or del_task changes the entry.
C25_HoldWhatWasRegisteredAtAccept ==
    /\ [][\A s \in Sessions :
            (pc[s] = "idle" /\ pc'[s] = "negotiate")
            => ctx'[s].rt = Get(rthandlers, ctx'[s].task_id, None)]_vars
    /\ [][\A s \in Sessions : pc[s] # "idle" => ctx'[s].rt = ctx[s].rt]_vars
    /\ [][(HoldsRegistered /\ rthandlers' = rthandlers) => HoldsRegistered']_vars
    /\ [][rthandlers' # rthandlers
            => (del_frame' # del_frame \/ last_call'.op = "add_task")]_vars

\* C25 witness: two sessions are in the set of one task and hold the
\* dispatcher registered for it.
C25_Witness ==
    \E s1 \in Sessions : \E s2 \in Sessions \ {s1} :
        /\ Registered(s1) /\ Registered(s2)
        /\ ctx[s1].task_id = ctx[s2].task_id
        /\ ctx[s1].task_id \in DOMAIN rthandlers
        /\ ctx[s1].rt = rthandlers[ctx[s1].task_id]
        /\ ctx[s2].rt = ctx[s1].rt /\ ctx[s1].rt \in RTs

\* The upload of connection s has appended its line to files.json.
Logged(s) ==
    /\ IsUpload(s) /\ hist[s].opened
    /\ pc[s] \in { "drain", "copy", "finally", "done" }

\* The entry the upload of connection s is to leave in files.json.
EntryOf(s) ==
    [path |-> protocol[s].header.store_as, filepath |-> protocol[s].header.path,
     pids |-> protocol[s].header.pids]

\* C26: in every interleaving of the FILE sessions of a task, files.json is
\* a sequence of complete lines, each one JSON object followed by its
\* newline; there is one line for each session that has appended, holding
\* the entry of that session, and none else.
C26_FilesJsonIsJsonLines ==
    \A t \in TaskIds :
        LET f == filelog[t]
            writers == { s \in Sessions : ctx[s].task_id = t /\ Logged(s) }
        IN  /\ Len(f) % 2 = 0
            /\ \A i \in 1..Len(f) :
                  f[i].tok = (IF i % 2 = 1 THEN "json" ELSE NL)
            /\ Len(f) = 2 * Cardinality(writers)
            /\ \A s \in writers :
                  \E i \in 1..Len(f) : f[i] = json_dumps(EntryOf(s))

\* C26 witness: two sessions have appended, each its own line, and both are
\* still uploading.
C26_Witness ==
    \E s1 \in Sessions : \E s2 \in Sessions \ {s1} :
        /\ Logged(s1) /\ Logged(s2) /\ pc[s1] = "copy" /\ pc[s2] = "copy"
        /\ EntryOf(s1) # EntryOf(s2)
        /\ Len(filelog[ctx[s1].task_id]) = 4
        /\ filelog[ctx[s1].task_id][1] = json_dumps(EntryOf(s2))
        /\ filelog[ctx[s1].task_id][3] = json_dumps(EntryOf(s1))
        /\ EntryOf(s1).pids # <<>>

\* Connection s is blocked in a recv: it has to read and nothing has
\* arrived, its peer neither sending nor closing.
BlockedInRecv(s) ==
    /\ pc[s] \in LinePcs \cup { "copy" }
    /\ pc[s] \in LinePcs => read_newline(ctx[s].buf).kind = "read"
    /\ Reads(sock[s]) = {}

\* C27: no connection holds the lock from one step to the next, so the lock
\* is held only by a del_task in progress; and while a connection is blocked
\* in a recv, with no del_task in progress, add_task and del_task can be
\* called, and another connection can take its next step, the registration
\* and the finally block that need the lock included.
C27_BlockedRecvHoldsNoLock ==
    /\ task_mgmt_lock # "free" => del_frame.pc # "idle"
    /\ \A s \in Sessions :
          (BlockedInRecv(s) /\ del_frame.pc = "idle")
          => /\ ENABLED add_task(1, "ipA", "rt1")
             /\ ENABLED del_task_pop(1, "ipA")
             /\ \A o \in Sessions \ {s} :
                   /\ pc[o] = "idle" =>
                         ENABLED accept(o, "ipA", Conversation(o, "LOG", 0, TRUE))
                   /\ pc[o] = "attach" => ENABLED attach(o)
                   /\ pc[o] = "enter" => ENABLED enter(o)
                   /\ pc[o] = "drain" => ENABLED copy_drain(o)
                   /\ pc[o] = "finally" => ENABLED finally(o)
                   /\ (pc[o] = "copy" /\ sock[o].closes /\ sock[o].wire = <<>>)
                         => ENABLED copy_read(o, 0)

\* C27 witness: one connection is blocked in the recv of its copy loop,
\* registered, while the other is at its registration, which needs the lock.
C27_Witness ==
    \E s \in Sessions : \E o \in Sessions \ {s} :
        /\ BlockedInRecv(s) /\ pc[s] = "copy" /\ Registered(s)
        /\ pc[o] = "attach" /\ del_frame.pc = "idle"

\* The k-th line of a stream, without its newline.
LineOf(stream, k) ==
    LET rest == AfterLines(stream, k - 1)
    IN  SubSeq(rest, 1, Find(rest, NL) - 1)

\* The command word of a stream and the header text after its first space.
CommandOf(stream) ==
    LET l == LineOf(stream, 1)
    IN  IF Find(l, SP) = 0 THEN l ELSE SubSeq(l, 1, Find(l, SP) - 1)
HeaderTextOf(stream) ==
    LET l == LineOf(stream, 1)
    IN  IF Find(l, SP) = 0 THEN <<>> ELSE SubSeq(l, Find(l, SP) + 1, Len(l))

\* The numbers of a comma-separated list of the decimal lexemes "2", "7", "8".
Number(x) == IF x = "2" THEN 2 ELSE IF x = "7" THEN 7 ELSE 8
PidList(line) == [i \in 1..((Len(line) + 1) \div 2) |-> Number(line[2 * i - 1])]

\* C28: when a FILE handler has its header and is about to check the path,
\* store_as, path and pids are: the next line, none and none when no header
\* was sent; the next three lines, the third as a list of numbers, for the
\* header 2; the members of the object for an object header.  A BSON header
\* that is a bare value is handed to the handler as {pid: value}.  A handler
\* that reads to the end of the stream has stored the bytes after the last
\* framing line, all of them and nothing else.
C28_HeaderVariantsResolved ==
    \A s \in Sessions :
        LET sent == sock[s].sent
            h == protocol[s].header
            text == HeaderTextOf(sent)
        IN  /\ (pc[s] = "open" /\ CommandOf(sent) = <<"FILE">>) =>
                  /\ text = <<>> =>
                        /\ h.store_as = LineOf(sent, 2)
                        /\ h.path = <<>> /\ h.pids = <<>>
                        /\ FramingLines(sent) = 2
                  /\ text = <<"2">> =>
                        /\ h.store_as = LineOf(sent, 2)
                        /\ h.path = LineOf(sent, 3)
                        /\ h.pids = PidList(LineOf(sent, 4))
                        /\ FramingLines(sent) = 4
                  /\ text \notin { <<>>, <<"2">> } =>
                        /\ h.store_as = JsonValue(text[1]).store_as
                        /\ h.path = JsonValue(text[1]).path
                        /\ h.pids = JsonValue(text[1]).pids
                        /\ FramingLines(sent) = 1
            /\ ( /\ pc[s] \notin { "idle", "negotiate" } /\ ctx[s].exc = None
                 /\ CommandOf(sent) = <<"BSON">> /\ text = <<"7">> ) =>
                  /\ h.tag = "obj" /\ h.pid = 7
                  /\ pc[s] \in { "drain", "copy" } => protocol[s].fd.key = BsonKey(7)
            /\ ( /\ hist[s].opened /\ ~hist[s].cancelled
                 /\ pc[s] = "done" /\ ctx[s].exc = None
                 /\ protocol[s].klass \in { "FILE", "BSON" } ) =>
                  fs[ctx[s].task_id][OutputKey(s)].data = BodyOf(s)

\* C28 witness: an upload under the header 2 has read its three lines, and
\* the first body byte, received with the last of them, waits in the buffer.
C28_Witness ==
    \E s \in Sessions :
        /\ pc[s] = "open" /\ HeaderTextOf(sock[s].sent) = <<"2">>
        /\ protocol[s].header.pids = <<7, 8>>
        /\ protocol[s].header.path = <<"p">>
        /\ ctx[s].buf # <<>> /\ IsPrefix(ctx[s].buf, BodyOf(s))

\* The number of complete lines of a stream, and the messages the dispatcher
\* of connection s has been given.
NumLines(stream) == Cardinality({ i \in 1..Len(stream) : stream[i] = NL })
Messages(s) == SubSeq(rtlog[s], 2, Len(rtlog[s]))

\* The part of its body that connection s has received.
ReceivedBody(s) == SubSeq(BodyOf(s), 1, Len(BodyOf(s)) - Len(sock[s].wire))

\* C29: a REALTIME session that holds a dispatcher calls start once, when
\* its handler begins and before any on_message; the messages it forwards
\* are the decoded complete lines of its body, one call each, in the order
\* sent; when its loop has ended at the end of the stream, it has forwarded
\* every complete line it received and nothing of a last line without
\* newline; and the loop ends otherwise only on a line that is not JSON.
C29_RealtimeForwardsLinesInOrder ==
    \A s \in Sessions :
        (protocol[s].klass = "REALTIME" /\ ctx[s].rt # None) =>
            /\ (hist[s].attached /\ pc[s] \in { "realtime", "finally", "done" }) =>
                  /\ rtlog[s] # <<>> /\ rtlog[s][1].op = "start"
                  /\ \A i \in 1..Len(Messages(s)) :
                        /\ Messages(s)[i].op = "on_message"
                        /\ i <= NumLines(BodyOf(s))
                        /\ json_loads(LineOf(BodyOf(s), i)).ok
                        /\ Messages(s)[i].arg = JsonValue(LineOf(BodyOf(s), i)[1])
            /\ (~hist[s].attached \/ pc[s] = "enter") => rtlog[s] = <<>>
            /\ (hist[s].attached /\ pc[s] \in { "finally", "done" } /\ ctx[s].exc = None) =>
                  Len(Messages(s)) = NumLines(ReceivedBody(s))
            /\ (hist[s].attached /\ pc[s] \in { "finally", "done" }) =>
                  /\ ctx[s].exc \in { None, "ValueError" }
                  /\ ctx[s].exc = "ValueError" =>
                        \E i \in 1..NumLines(BodyOf(s)) :
                            ~json_loads(LineOf(BodyOf(s), i)).ok

\* C29 witness: the session is over at the end of a stream of two messages
\* and the beginning of a third line; the dispatcher got start and the two
\* messages in order.
C29_Witness ==
    \E s \in Sessions :
        /\ protocol[s].klass = "REALTIME" /\ pc[s] = "done" /\ ctx[s].exc = None
        /\ ~hist[s].cancelled
        /\ Len(rtlog[s]) = 3 /\ rtlog[s][1].op = "start"
        /\ rtlog[s][2].arg # rtlog[s][3].arg
        /\ rtlog[s][3].arg.pid = 7
        /\ sock[s].sent[Len(sock[s].sent)] # NL

\* C30: an attached session leaves its handler, however it leaves it, for
\* the finally block, and the finally block takes it out of the set of its
\* task and shuts its socket down: at its end the session is in no set and
\* is cancelled.  When del_task has already taken the set out the block
\* leaves handlers as it is, and when the socket is already shut down it
\* leaves the socket as it is; in neither case does it touch tasks or
\* rthandlers.
C30_ExitDetachesAndCancels ==
    /\ [][\A s \in Sessions :
            (pc[s] \in HandlerPcs /\ pc'[s] \notin HandlerPcs)
            => pc'[s] = "finally"]_vars
    /\ [][\A s \in Sessions :
            (pc[s] = "finally" /\ pc'[s] # "finally")
            => /\ pc'[s] = "done"
               /\ \A t \in DOMAIN handlers' : s \notin handlers'[t]
               /\ sock'[s].shut
               /\ ctx[s].task_id \notin DOMAIN handlers => handlers' = handlers
               /\ sock[s].shut => sock'[s] = sock[s]
               /\ tasks' = tasks /\ rthandlers' = rthandlers
               /\ ctx'[s].exc = ctx[s].exc]_vars
    /\ [](\A s \in Sessions :
            (hist[s].attached /\ pc[s] = "done")
            => (~Registered(s) /\ sock[s].shut))
    /\ [](\A s \in Sessions : Registered(s) => hist[s].attached)

\* C30 witness: a session that del_task had taken out of its set and
\* cancelled has been through its finally block, the task registered again
\* in the meantime.
C30_Witness ==
    \E s \in Sessions :
        /\ hist[s].attached /\ hist[s].cancelled /\ hist[s].torn_at = "handling"
        /\ pc[s] = "done" /\ ~Registered(s) /\ sock[s].shut
        /\ ctx[s].task_id \in DOMAIN rthandlers

\* The concatenation of the sequences seqs[1..n], by field or as they are.
RECURSIVE Concat(_, _)
Concat(seqs, n) == IF n = 0 THEN <<>> ELSE Concat(seqs, n - 1) \o seqs[n]
OutsOf(ret) == [i \in 1..Len(ret) |-> ret[i].out]

\* C31: after any sequence of writes on a WriteLimiter created with the
\* limit C, the file has received the first min(L, C) of the L bytes written,
\* followed by the marker iff L > C; the marker comes once, in the first
\* write with which the bytes written exceed C, and that write and every
\* later one hands nothing after it to the file; every write returns.
C31_LimiterCutsOnceAtCap ==
    pure_call.fn = "WriteLimiter" =>
        LET cap == pure_call.ret[1].remain
            n == Len(pure_call.arg)
            written(i) == Len(Concat(pure_call.arg, i))
            sink(i) == Concat(OutsOf(pure_call.ret), i + 1)
        IN  /\ Len(pure_call.ret) = n + 1
            /\ \A i \in 0..n :
                  sink(i) = Truncated(Concat(pure_call.arg, i), cap)
            /\ \A i \in 1..n :
                  LET out == pure_call.ret[i + 1].out
                      first == written(i - 1) <= cap /\ written(i) > cap
                  IN  /\ first =>
                            out = SubSeq(pure_call.arg[i], 1, cap - written(i - 1))
                                    \o TRUNCATED
                      /\ written(i - 1) > cap => out = <<>>
                      /\ written(i) <= cap => out = pure_call.arg[i]
                      /\ pure_call.ret[i + 1].warned <=> written(i) > cap

\* C31 witness: three writes, the second of which did not fit: the file got
\* the bytes up to the limit and the marker, and nothing of the third.
C31_Witness ==
    /\ pure_call.fn = "WriteLimiter" /\ Len(pure_call.arg) = 3
    /\ pure_call.ret[1].remain = 2
    /\ pure_call.ret[2].out = <<"a">>
    /\ pure_call.ret[3].out = <<"b">> \o TRUNCATED
    /\ pure_call.arg[3] # <<>> /\ pure_call.ret[4].out = <<>>

\* C32: add_task(t, ip, rt) returns whatever ip was bound to before, with ip
\* bound to t and rt the dispatcher of t, and changes nothing of any running
\* session: each stays where it was, attached to the task it was attached
\* to.  A connection from ip accepted next is bound to t with that
\* dispatcher and goes on to the negotiation.
C32_AddTaskOverwritesBinding ==
    /\ [][\A t \in TaskIds, ip \in IPs, rt \in RTs :
             add_task(t, ip, rt) =>
                 /\ Get(tasks', ip, NoTask) = t
                 /\ Get(rthandlers', t, None) = rt
                 /\ last_call'.result = "ok"
                 /\ \A i \in DOMAIN tasks \ {ip} : tasks'[i] = tasks[i]
                 /\ UNCHANGED <<handlers, sessVars>>]_vars
    /\ [][\A s \in Sessions, t \in TaskIds, ip \in IPs :
             /\ last_call.op = "add_task" /\ last_call.task_id = t
             /\ last_call.ipaddr = ip /\ del_frame.pc = "idle"
             /\ pc[s] = "idle" /\ pc'[s] # "idle" /\ ctx'[s].ipaddr = ip
             => /\ pc'[s] = "negotiate"
                /\ ctx'[s].task_id = t
                /\ ctx'[s].rt = Get(rthandlers, t, None)
                /\ ctx'[s].rt \in RTs]_vars

\* C32 witness: ipA was bound to task 1 and a connection attached to it,
\* then add_task bound ipA to task 2: the first connection is still in its
\* handler, in the set of task 1, and a new connection from ipA is bound to
\* task 2 with the dispatcher add_task gave.
C32_Witness ==
    /\ last_call.op = "add_task" /\ last_call.task_id = 2 /\ last_call.ipaddr = "ipA"
    /\ ctx[1].task_id = 1 /\ ctx[1].ipaddr = "ipA" /\ pc[1] = "copy"
    /\ 1 \in DOMAIN handlers /\ 1 \in handlers[1]
    /\ ctx[2].task_id = 2 /\ ctx[2].ipaddr = "ipA" /\ ctx[2].rt = "rt2"
    /\ pc[2] = "negotiate"
    /\ rthandlers[1] = "rt1"

\* The BSON header of connection s carries no pid: there is no header, or
\* it is an object without a pid.
NoPidHeader(s) ==
    /\ protocol[s].klass = "BSON"
    /\ \/ protocol[s].header.tag = "None"
       \/ protocol[s].header.tag = "obj" /\ protocol[s].header.pid = NoPid

\* C33: a BSON session whose header has no pid, the BSON command with no
\* header at all included, returns from its handler without an error
\* (the anomaly is logged), having opened no file and called recv no more
\* after the negotiation.
C33_BsonWithoutPidLogsAndReturns ==
    \A s \in Sessions :
        ( NoPidHeader(s) /\ pc[s] \in { "finally", "done" } ) =>
            /\ ctx[s].exc = None
            /\ ~hist[s].opened /\ ~protocol[s].fd.open
            /\ hist[s].body_reads = 0

\* C34: a recv that ends in a clean close, in ECONNRESET or in EBADF gives
\* the reader the empty result: the copy ends without an error and a line
\* being read ends as end of stream.  Every other socket error, a timeout
\* included, is raised.  A session a socket error was raised in has ended,
\* with its output file closed.
C34_ReadEmptyOnResetRaisesOthers ==
    /\ [][\A s \in Sessions :
             /\ \A r \in { 0, ConnReset, BadFd } :
                   /\ copy_read(s, r) =>
                         pc'[s] = "finally" /\ ctx'[s].exc = None
                   /\ (read_newline_step(s, r) /\ read_newline(ctx[s].buf).kind = "read") =>
                         /\ pc'[s] \in { "finally", "done" }
                         /\ ctx'[s].exc \in { "EOFError", None }
             /\ \A r \in { RecvError, TimedOut } :
                   /\ copy_read(s, r) => ctx'[s].exc = "socket.error"
                   /\ (read_newline_step(s, r) /\ read_newline(ctx[s].buf).kind = "read") =>
                         ctx'[s].exc = IF r = TimedOut THEN "timeout" ELSE "socket.error"]_vars
    /\ [](\A s \in Sessions :
             ctx[s].exc \in { "socket.error", "timeout" } =>
                 /\ pc[s] \in { "finally", "done" }
                 /\ ~protocol[s].fd.open)

\* C34 witness: a recv of the copy loop failed with a socket error after the
\* output file had been opened and part of the body written: the session is
\* in its finally block with the file closed.
C34_Witness ==
    \E s \in Sessions :
        /\ ctx[s].exc = "socket.error" /\ hist[s].opened
        /\ pc[s] = "finally" /\ ~protocol[s].fd.open
        /\ sock[s].wire # <<>> /\ Len(sock[s].wire) < Len(BodyOf(s))

\* C35: BsonStore.init with a pid in the header always opens logs/<pid>.bson:
\* also when the file exists, and when another connection has it open and
\* is writing; after the open the file is empty, whatever it held.
C35_BsonOpenTruncates ==
    [][\A s \in Sessions :
          ( /\ enter(s) /\ protocol[s].klass = "BSON"
            /\ protocol[s].header.tag = "obj" /\ protocol[s].header.pid # NoPid ) =>
              LET key == BsonKey(protocol[s].header.pid)
                  t == ctx[s].task_id
              IN  /\ pc'[s] = "drain"
                  /\ protocol'[s].fd.open /\ protocol'[s].fd.key = key
                  /\ key \in DOMAIN fs'[t] /\ fs'[t][key].data = <<>>]_vars

\* C35 witness: a BSON connection has written part of its stream to
\* logs/7.bson and is still copying when a second connection with the same
\* pid opens the file: both hold it open, and it is empty.
C35_Witness ==
    \E s1, s2 \in Sessions :
        /\ s1 # s2
        /\ pc[s1] = "copy" /\ protocol[s1].fd.open /\ protocol[s1].fd.off > 0
        /\ pc[s2] = "drain" /\ protocol[s2].fd.open
        /\ protocol[s1].fd.key = BsonKey(7) /\ protocol[s2].fd.key = BsonKey(7)
        /\ sock[s1].wire # <<>>
        /\ fs[1][BsonKey(7)].data = <<>>
        /\ fs[1][BsonKey(7)].openers = <<s1, s2>>

\* C36: del_task(t, ip) changes only what belongs to task t: the binding of
\* ip is removed only if it maps to t, and the bindings, the dispatchers and
\* the attached sessions of every other task are unchanged and uncancelled.
C36_DelTaskTouchesOnlyItsTask ==
    [][\A t \in TaskIds, ip \in IPs :
          /\ del_task_pop(t, ip) =>
                /\ \A i \in DOMAIN tasks :
                      (i # ip \/ tasks[i] # t) =>
                          i \in DOMAIN tasks' /\ tasks'[i] = tasks[i]
                /\ \A u \in TaskIds \ {t} :
                      /\ Get(rthandlers', u, None) = Get(rthandlers, u, None)
                      /\ Get(handlers', u, {}) = Get(handlers, u, {})
          /\ \A s \in Sessions :
                (del_task_cancel(s) /\ del_frame.task_id = t) =>
                    /\ ctx[s].task_id = t
                    /\ \A o \in Sessions \ {s} : sock'[o] = sock[o]]_vars

\* C37: the registry lock is taken and given back within one step by
\* add_task and by the lookup, the registration and the detaching of a
\* session, whose critical sections are dictionary and set operations; only
\* del_task holds it over several steps, and then del_task can always take
\* its next step, whatever the sessions do and also when its pop has raised
\* KeyError: every acquisition is followed by a release.
C37_LockAlwaysReleased ==
    /\ [](task_mgmt_lock # "free" =>
             /\ task_mgmt_lock = "del_task" /\ del_frame.pc \in { "cancel", "KeyError" }
             /\ ENABLED DelTaskStep)
    /\ [][task_mgmt_lock = "free" /\ task_mgmt_lock' # "free" =>
             \E t \in TaskIds, ip \in IPs : del_task_pop(t, ip)]_vars
    /\ (task_mgmt_lock # "free") ~> (task_mgmt_lock = "free")

\* C37 witness: del_task holds the lock after its pop raised KeyError,
\* while one session waits to register and another to detach.
C37_Witness ==
    /\ task_mgmt_lock = "del_task" /\ del_frame.pc = "KeyError"
    /\ \E s1, s2 \in Sessions : pc[s1] = "attach" /\ pc[s2] = "finally"

\* The paths recorded in files.json of task t, in the order of the lines.
RecordedPaths(t) ==
    [i \in 1..(Len(filelog[t]) \div 2) |-> filelog[t][2 * i - 1].obj.path]

\* C38: files.json grows only by the line of an upload whose exclusive
\* create has succeeded and which has written no byte of its body yet;
\* every path recorded names a file that was created, no path is recorded
\* twice for a task, and an upload that was rejected or refused as an
\* overwrite has recorded nothing.
C38_RecordedAfterCreateBeforeBody ==
    /\ [][filelog' # filelog =>
             \E s \in Sessions :
                 LET t == ctx[s].task_id
                     key == protocol[s].fd.key
                 IN  /\ file_log(s)
                     /\ hist[s].opened /\ protocol[s].fd.open
                     /\ key \in DOMAIN fs[t] /\ fs[t][key].openers = <<s>>
                     /\ fs[t][key].data = <<>> /\ protocol[s].fd.off = 0
                     /\ filelog'[t] = filelog[t] \o files_json_line(EntryOf(s))
                     /\ key = FileKey(EntryOf(s).path)]_vars
    /\ [](\A t \in TaskIds :
             LET paths == RecordedPaths(t)
             IN  /\ \A i \in 1..Len(paths) : FileKey(paths[i]) \in DOMAIN fs[t]
                 /\ \A i, j \in 1..Len(paths) : paths[i] = paths[j] => i = j
                 /\ Len(paths) =
                        Cardinality({ s \in Sessions : ctx[s].task_id = t /\ Logged(s) }))
    /\ [](\A s \in Sessions :
             ctx[s].exc \in { "NoDumpPath", "BannedPath", "Overwrite" } =>
                 ~hist[s].opened /\ ~Logged(s))

\* C38 witness: two uploads of one task under the same name, and one under
\* a refused path before them: the first has its line in files.json and its
\* file, the second was refused as an overwrite and left no line.
C38_Witness ==
    \E s1, s2 \in Sessions :
        /\ Logged(s1) /\ ctx[s2].exc = "Overwrite" /\ pc[s2] = "finally"
        /\ RecordedPaths(1) = << <<"files", "/", "a">> >>
        /\ fs[1][FileKey(<<"files", "/", "a">>)].openers = <<s1>>

\* C39: when del_task raises, the registry is as it was when del_task was
\* called: no binding has been removed, and no session set has been dropped
\* with its sessions left uncancelled.
C39_FailedDelTaskChangesNothing ==
    del_frame.pc = "KeyError" =>
        /\ tasks = del_frame.entry[1]
        /\ rthandlers = del_frame.entry[2]
        /\ handlers = del_frame.entry[3]

\* C40: a connection from an address that add_task has bound to a task goes
\* on to the negotiation whatever the task id is, 0 included; only a
\* connection from an address with no binding is turned away.
C40_BoundAddressAcceptedForEveryTaskId ==
    [][\A s \in Sessions :
          (pc[s] = "idle" /\ pc'[s] # "idle") =>
              IF ctx'[s].ipaddr \in DOMAIN tasks
              THEN pc'[s] = "negotiate" /\ ctx'[s].task_id = tasks[ctx'[s].ipaddr]
              ELSE pc'[s] = "done" /\ ctx'[s].exc = "NoTask"]_vars

====
